---- MODULE Spec2Model ----
(***************************************************************************)
(* A model of the operator scraper of src/scrapper.py: the record store    *)
(* (save_operator_data, cleanup_operator_files), the retrying locator      *)
(* (safe_find_element), page loading (load_operator_page), the extraction  *)
(* pipeline (process_operator) and the batch loop (process_all_operators). *)
(*                                                                         *)
(* Three specifications share the variables:                               *)
(*   SpecStore   the record store driven by an arbitrary caller;           *)
(*   SpecLocate  one call of safe_find_element, probe by probe;            *)
(*   Spec        the main program: menu choice, process_operator and       *)
(*               process_all_operators over the operator list.             *)
(***************************************************************************)
EXTENDS Integers, Sequences, FiniteSets, TLC

(***************************************************************************)
(* Program constants and bounds of the model.                              *)
(***************************************************************************)
MAX_RETRY_ATTEMPTS == 3

\* Number of store calls an arbitrary caller makes in SpecStore.
MaxCalls == 2

\* The operator names the store specification uses.  Names are never empty:
\* get_all_operators keeps only elements with a non-empty text (line 1088).
StoreEntities == {"A", "B"}

\* Field names of a persisted record: the keys the extractors write.
Fields == {"info", "stats", "potential", "promotion", "skills",
           "skill_upgrade_costs", "mastery_costs", "talents"}

\* The fields an arbitrary caller of the store writes in SpecStore.
TestFields == {"info", "stats"}

\* A field value: the operator it was extracted for and what it holds
\* ("empty" is the {} written by operator_info, "old" a value of an earlier
\* run, "doc" / "doc2" values read from the document).
V(ent, tag) == [of |-> ent, tag |-> tag]

NoVal == [of |-> "", tag |-> ""]

EmptyRec == [f \in {} |-> NoVal]

(***************************************************************************)
(* The record store: one file OPERATOR_DIR/<operator>.json per operator.   *)
(* A file is absent, holds a JSON object (field -> value), or holds text   *)
(* json.load cannot read.                                                  *)
(***************************************************************************)
NoFile == [kind |-> "none", data |-> EmptyRec]

Corrupt == [kind |-> "corrupt", data |-> EmptyRec]

Json(d) == [kind |-> "json", data |-> d]

\* for key, value in data_to_add.items(): operator_data[key] = value
OnlyNewData(operator_data, data_to_add) == data_to_add

FirstWins(operator_data, data_to_add) ==
    [f \in DOMAIN operator_data \cup DOMAIN data_to_add |->
        IF f \in DOMAIN operator_data THEN operator_data[f] ELSE data_to_add[f]]

MergeNewData(operator_data, data_to_add) ==
    [f \in DOMAIN operator_data \cup DOMAIN data_to_add |->
        IF f \in DOMAIN data_to_add THEN data_to_add[f] ELSE operator_data[f]]

\* The outcomes the file system can give one call of save_operator_data:
\* reading the existing file fails, opening the file for writing fails, or
\* both succeed.
IoOutcomes(file) ==
    IF file.kind = "none" THEN {"ok", "write_error"}
    ELSE {"ok", "read_error", "write_error"}

\* save_operator_data(operator_name, data_to_add) on the store fs, the file
\* system answering io: the returned flag and the store afterwards.
SaveOverUnreadable(fs, operator_name, data_to_add, io) ==
    IF io = "write_error"
    THEN [ok |-> FALSE, files |-> fs]
    ELSE [ok |-> TRUE,
          files |-> [fs EXCEPT ![operator_name] =
                       Json(MergeNewData(IF fs[operator_name].kind = "json" /\ io = "ok"
                                         THEN fs[operator_name].data ELSE EmptyRec,
                                         data_to_add))]]

save_operator_data(fs, operator_name, data_to_add, io) ==
    LET cur == fs[operator_name]
        operator_data == IF cur.kind = "json" THEN cur.data ELSE EmptyRec
    IN  IF cur.kind = "corrupt" \/ io # "ok"
        THEN [ok |-> FALSE, files |-> fs]
        ELSE [ok |-> TRUE,
              files |-> [fs EXCEPT ![operator_name] =
                           Json(MergeNewData(operator_data, data_to_add))]]

\* The argument of cleanup_operator_files: None, or an operator name.
None == "None"

\* Python's truth test of the argument (if operator_name:).
Truthy(operator_name) == operator_name \notin {None, ""}

\* cleanup_operator_files(operator_name) on the store: the returned flag, the
\* directory and the files afterwards.  Removing a file is taken not to fail.
CleanupRemovesAll(dir, fs, operator_name) ==
    [ok |-> TRUE, dir |-> TRUE, files |-> [e \in DOMAIN fs |-> NoFile]]

CleanupEmptiesFiles(dir, fs, operator_name) ==
    [ok |-> TRUE, dir |-> TRUE,
     files |-> [e \in DOMAIN fs |->
                  IF Truthy(operator_name) /\ e # operator_name THEN fs[e]
                  ELSE IF fs[e] = NoFile THEN NoFile ELSE Corrupt]]

cleanup_operator_files(dir, fs, operator_name) ==
    IF ~dir
    THEN [ok |-> TRUE, dir |-> TRUE, files |-> fs]
    ELSE IF Truthy(operator_name)
         THEN [ok |-> TRUE, dir |-> TRUE,
               files |-> [fs EXCEPT ![operator_name] = NoFile]]
         ELSE [ok |-> TRUE, dir |-> TRUE,
               files |-> [e \in DOMAIN fs |-> NoFile]]

(***************************************************************************)
(* safe_find_element: the retry loop around one query of the document.     *)
(***************************************************************************)
DEFAULT_WAIT_TIME == 5

\* except (NoSuchElementException, TimeoutException, StaleElementReferenceException)
\* except (NoSuchElementException, TimeoutException,
\*         StaleElementReferenceException) as e:
EveryError == {"NoSuchElementException", "TimeoutException",
               "StaleElementReferenceException", "WebDriverException"}

TransientErrors == {"NoSuchElementException", "TimeoutException",
                    "StaleElementReferenceException"}

\* What one probe can end in, by the branch of the try block that makes it:
\* parent.find_element, WebDriverWait(...).until(...) or driver.find_element.
\* "WebDriverException" stands for every error that is not transient (a dead
\* session, an invalid selector).
ProbeOutcomes(parent, wait_time) ==
    IF parent
    THEN {"found", "NoSuchElementException", "StaleElementReferenceException",
          "WebDriverException"}
    ELSE IF wait_time > 0
         THEN {"found", "TimeoutException", "StaleElementReferenceException",
               "WebDriverException"}
         ELSE {"found", "NoSuchElementException", "WebDriverException"}

\* while retry_count < MAX_RETRY_ATTEMPTS and not element
LoopContinuesShort(retry_count, element) ==
    retry_count < MAX_RETRY_ATTEMPTS - 1 /\ element = None

LoopContinues(retry_count, element) ==
    retry_count < MAX_RETRY_ATTEMPTS /\ element = None

\* if retry_count >= MAX_RETRY_ATTEMPTS
RetryExhaustedEarly(retry_count) == retry_count >= MAX_RETRY_ATTEMPTS - 1

RetryExhausted(retry_count) == retry_count >= MAX_RETRY_ATTEMPTS

\* if not optional: print("Failed to find element ...")
ReportsFailureAlways(optional) == TRUE

ReportsFailure(optional) == ~optional

VARIABLES
    dirExists,   \* OPERATOR_DIR exists
    files,       \* operator name -> file content
    calls,       \* SpecStore: the calls made so far, each with the store
                 \* before and after it
    sf_pc,       \* safe_find_element: "idle", "loop", "sleep", "returned", "raised"
    sf_args,     \* its arguments parent, wait_time, optional
    sf_retry_count,
    sf_errors,   \* errors: the text of every transient error caught
    sf_result,   \* the value returned (None, or the element)
    sf_printed,  \* the "Failed to find element" message was printed
    sf_probes,   \* what each probe made so far ended in
    sf_sleeps,   \* number of time.sleep(0.5) calls made
    mode,        \* the function that runs: "store", "safe_find_element",
                 \* "safe_find_elements", "merge" (concurrent callers of
                 \* save_operator_data), "list" (get_all_operators), "single"
                 \* (process_operator), "batch" (process_all_operators), or
                 \* "rerun" (the batch run twice), "extract" (a helper of
                 \* scrapper.py on its own), "scripts" (a function of one of
                 \* the other scripts)
    pc,          \* control position of the main program
    driver,      \* the driver variable: 0 for None, else a session number
    sessions,    \* every browser session created so far: "active", "dead", "closed"
    doc,         \* the document source: operator -> the sections its page has
    faults,      \* faults the environment has injected so far
    clean_before_run,  \* process_all_operators' argument
    index,       \* process_all_operators: position in operator_names (from 1)
    successful,  \* process_all_operators: counter
    failed,      \* process_all_operators: counter
    po,          \* process_operator: operator_name, clean_before_run, the
                 \* returned success flag, and the result of its page load
    lp,          \* load_operator_page: its caller and retry_count
    unit,        \* process_operator: the next extractor to call (from 1)
    ran,         \* history: the extractors called for this operator, with outcomes
    snap,        \* history: the files when process_operator was called
    tally,       \* history: each counted operator with its success flag, the
                 \* result of its page load and the number of units it ran
    counted,     \* history: how many times each list position was counted
    stopped,     \* history: the batch loop ended by break
    merged,      \* history: operator -> the callers whose save succeeded since
                 \* the operator's file was last removed
    slept,       \* history: number of time.sleep(1) calls of process_all_operators
    kept,        \* history: the files at the end of each earlier run of main
    ga,          \* get_all_operators: its locals and the outcome of each pass
    mg,          \* the callers of save_operator_data at work, each with its
                 \* position and locals
    fx           \* a helper function called on its own: its name, its
                 \* arguments and, once it has returned, its result

storeVars == <<dirExists, files>>

locVars == <<sf_pc, sf_args, sf_retry_count, sf_errors, sf_result, sf_printed,
             sf_probes, sf_sleeps>>

sessVars == <<driver, sessions>>

batchVars == <<clean_before_run, index, successful, failed, tally, counted, stopped,
               slept>>

auxVars == <<kept, ga, mg, fx>>

mainVars == <<mode, pc, driver, sessions, doc, faults, clean_before_run, index,
              successful, failed, po, lp, unit, ran, snap, tally, counted,
              stopped, merged, slept, kept, ga>>

runVars == <<mainVars, mg, fx>>

vars == <<dirExists, files, calls, sf_pc, sf_args, sf_retry_count, sf_errors,
          sf_result, sf_printed, sf_probes, sf_sleeps, mode, pc, driver,
          sessions, doc, faults, clean_before_run, index, successful, failed,
          po, lp, unit, ran, snap, tally, counted, stopped, merged, slept,
          kept, ga, mg, fx>>

\* No call of safe_find_element is in progress.
LocIdle ==
    /\ sf_pc = "idle"
    /\ sf_args = [parent |-> FALSE, wait_time |-> DEFAULT_WAIT_TIME, optional |-> FALSE]
    /\ sf_retry_count = 0
    /\ sf_errors = <<>>
    /\ sf_result = None
    /\ sf_printed = FALSE
    /\ sf_probes = <<>>
    /\ sf_sleeps = 0

\* No load_operator_page call is running: its locals do not exist.  gets
\* counts the driver.get calls of the failed passes of the running call.
NoLoad == [caller |-> "", retry_count |-> 0, gets |-> 0]

\* No helper function is called on its own.
FxIdle == [fn |-> "", pc |-> "idle"]

\* get_all_operators has not been called.
GaIdle == [pc |-> "idle", retry_count |-> 0, operator_names |-> <<>>,
           passes |-> <<>>]

\* The main program is not running.
RunIdle ==
    /\ pc = "idle"
    /\ driver = 0
    /\ sessions = <<>>
    /\ doc = <<>>
    /\ faults = 0
    /\ clean_before_run = FALSE
    /\ index = 0
    /\ successful = 0
    /\ failed = 0
    /\ po = [operator_name |-> "", clean_before_run |-> FALSE, success |-> FALSE,
             loaded |-> "no"]
    /\ lp = NoLoad
    /\ unit = 0
    /\ ran = <<>>
    /\ snap = <<>>
    /\ tally = <<>>
    /\ counted = <<>>
    /\ stopped = FALSE
    /\ merged = <<>>
    /\ slept = 0
    /\ kept = <<>>

\* The store is not in use: no directory, no file.
StoreIdle ==
    /\ dirExists = FALSE
    /\ files = [e \in StoreEntities |-> NoFile]
    /\ calls = <<>>

(***************************************************************************)
(* SpecStore: an arbitrary caller of the record store.                     *)
(***************************************************************************)
\* The partial records a caller hands to save_operator_data for operator e.
PartialRecords(e) ==
    UNION {[S -> {V(e, "doc"), V(e, "doc2")}] : S \in SUBSET TestFields}

\* The record an earlier run left for operator e.
OldRecord(e) == Json([f \in {"info", "talents"} |-> V(e, "old")])

StoreInit ==
    /\ dirExists \in BOOLEAN
    /\ files \in [StoreEntities -> {NoFile, Corrupt} \cup {OldRecord(e) : e \in StoreEntities}]
    /\ \A e \in StoreEntities : files[e].kind = "json" => files[e] = OldRecord(e)
    /\ ~dirExists => \A e \in StoreEntities : files[e] = NoFile
    /\ calls = <<>>
    /\ LocIdle
    /\ RunIdle
    /\ fx = FxIdle
    /\ mode = "store"
    /\ ga = GaIdle
    /\ mg = <<>>

StoreSave ==
    /\ Len(calls) < MaxCalls
    /\ \E e \in StoreEntities : \E p \in PartialRecords(e) :
       \E io \in IoOutcomes(files[e]) :
          LET r == save_operator_data(files, e, p, io) IN
          /\ files' = r.files
          /\ dirExists' = TRUE
          /\ calls' = Append(calls, [op |-> "save", e |-> e, p |-> p, ok |-> r.ok,
                                     preDir |-> dirExists, pre |-> files,
                                     post |-> r.files, io |-> io])
    /\ UNCHANGED <<locVars, runVars>>

StoreCleanup ==
    /\ Len(calls) < MaxCalls
    /\ \E e \in StoreEntities \cup {None} :
          LET r == cleanup_operator_files(dirExists, files, e) IN
          /\ files' = r.files
          /\ dirExists' = r.dir
          /\ calls' = Append(calls, [op |-> "cleanup", e |-> e, p |-> EmptyRec,
                                     ok |-> r.ok, preDir |-> dirExists,
                                     pre |-> files, post |-> r.files, io |-> "ok"])
    /\ UNCHANGED <<locVars, runVars>>

StoreNext == StoreSave \/ StoreCleanup

SpecStore == StoreInit /\ [][StoreNext]_vars

\* Calls i < j are two successful saves for the same operator with no call
\* touching that operator's record between them.
SavePair(i, j) ==
    /\ i < j
    /\ calls[i].op = "save" /\ calls[j].op = "save"
    /\ calls[i].e = calls[j].e
    /\ calls[i].ok /\ calls[j].ok
    /\ \A k \in (i+1)..(j-1) :
          /\ calls[k].e # calls[i].e
          /\ ~(calls[k].op = "cleanup" /\ calls[k].e = None)

\* C1: after save_operator_data(E, p1) then save_operator_data(E, p2), both
\* succeeding, with disjoint field names, E's record holds every field of p1
\* and of p2 with their values, and every field the record had before.
C1_MergeDisjointUnion ==
    \A i, j \in 1..Len(calls) :
       (SavePair(i, j) /\ DOMAIN calls[i].p \cap DOMAIN calls[j].p = {}) =>
          LET E == calls[i].e
              before == calls[i].pre[E].data
              rec == calls[j].post[E]
          IN  /\ rec.kind = "json"
              /\ \A f \in DOMAIN calls[i].p : f \in DOMAIN rec.data /\ rec.data[f] = calls[i].p[f]
              /\ \A f \in DOMAIN calls[j].p : f \in DOMAIN rec.data /\ rec.data[f] = calls[j].p[f]
              /\ \A f \in DOMAIN before :
                    /\ f \in DOMAIN rec.data
                    /\ f \notin (DOMAIN calls[i].p \cup DOMAIN calls[j].p)
                          => rec.data[f] = before[f]

C1_Witness ==
    \E i, j \in 1..Len(calls) :
       /\ SavePair(i, j)
       /\ DOMAIN calls[i].p = {"stats"}
       /\ DOMAIN calls[j].p = {"info"}
       /\ calls[i].pre[calls[i].e] = OldRecord(calls[i].e)
       /\ files[calls[i].e].kind = "json"
       /\ DOMAIN files[calls[i].e].data = {"info", "stats", "talents"}

\* C2: after save_operator_data(E, p1) then save_operator_data(E, p2), a field
\* the two share holds p2's value (the later merge wins), and a field of p1
\* that p2 does not have keeps p1's value.
C2_LastMergeWins ==
    \A i, j \in 1..Len(calls) :
       SavePair(i, j) =>
          LET rec == calls[j].post[calls[i].e]
          IN  /\ rec.kind = "json"
              /\ \A f \in DOMAIN calls[j].p :
                    f \in DOMAIN rec.data /\ rec.data[f] = calls[j].p[f]
              /\ \A f \in DOMAIN calls[i].p \ DOMAIN calls[j].p :
                    f \in DOMAIN rec.data /\ rec.data[f] = calls[i].p[f]

C2_Witness ==
    \E i, j \in 1..Len(calls) :
       /\ SavePair(i, j)
       /\ DOMAIN calls[i].p = {"info", "stats"}
       /\ DOMAIN calls[j].p = {"stats"}
       /\ calls[i].p["stats"] # calls[j].p["stats"]
       /\ files[calls[i].e].kind = "json"
       /\ files[calls[i].e].data["stats"] = calls[j].p["stats"]
       /\ files[calls[i].e].data["info"] = calls[i].p["info"]

\* C9: cleanup_operator_files(E) removes E's file and changes no other;
\* cleanup_operator_files() removes every file; clearing an operator that has
\* no file, or clearing when the directory does not exist, returns True and
\* removes nothing.
C9_CleanupFrame ==
    \A i \in 1..Len(calls) :
       calls[i].op = "cleanup" =>
          LET c == calls[i] IN
          /\ c.ok
          /\ (c.e # None) =>
                /\ c.post[c.e] = NoFile
                /\ \A o \in StoreEntities \ {c.e} : c.post[o] = c.pre[o]
          /\ (c.e = None) => \A o \in StoreEntities : c.post[o] = NoFile
          /\ (c.e # None /\ c.pre[c.e] = NoFile) => c.post = c.pre
          /\ ~c.preDir => c.post = c.pre

C9_Witness ==
    \E i \in 1..Len(calls) :
       /\ calls[i].op = "cleanup"
       /\ calls[i].e = "A"
       /\ calls[i].pre["A"].kind = "json"
       /\ calls[i].pre["B"].kind = "json"
       /\ calls[i].post["A"] = NoFile
       /\ files["B"].kind = "json"

\* The read of the existing record failed in call i: the file is not valid
\* JSON, or it could not be read.
ReadFailed(i) ==
    /\ calls[i].op = "save"
    /\ \/ calls[i].pre[calls[i].e].kind = "corrupt"
       \/ calls[i].io = "read_error"

\* C32: when reading the existing record of E fails (the file cannot be read
\* or is not valid JSON), save_operator_data returns False, raises nothing,
\* writes nothing, and leaves the record of E and of every other operator
\* as it was.
C32_ReadFailureWritesNothing ==
    \A i \in 1..Len(calls) :
       ReadFailed(i) => (~calls[i].ok /\ calls[i].post = calls[i].pre)

\* A save met a file that is not valid JSON, another a file it could not
\* read, while the other operator has a record.
C32_Witness ==
    /\ Len(calls) = 2
    /\ ReadFailed(1) /\ calls[1].pre[calls[1].e] = Corrupt
    /\ ReadFailed(2) /\ calls[2].io = "read_error"
    /\ calls[2].pre[calls[2].e].kind = "json"
    /\ calls[1].e # calls[2].e
    /\ files = calls[1].pre
    /\ DOMAIN calls[1].p # {}

(***************************************************************************)
(* SpecMerge: two callers of save_operator_data at the same time, each     *)
(* call taken statement by statement.                                      *)
(***************************************************************************)
Workers == {1, 2}

\* The partial records handed over: at least one field.
MergeRecords(e) == {p \in PartialRecords(e) : DOMAIN p # {}}

\* file_path = os.path.join(OPERATOR_DIR, f"{operator_name}.json")
SharedFilePath(operator_name) == "A"

file_path(operator_name) == operator_name

\* Both callers have entered save_operator_data; pre is the store at the
\* time of the call.
MergeInit ==
    /\ LocIdle
    /\ RunIdle
    /\ fx = FxIdle
    /\ mode = "merge"
    /\ ga = GaIdle
    /\ calls = <<>>
    /\ dirExists = TRUE
    /\ files \in [StoreEntities -> {NoFile, Corrupt} \cup {OldRecord(e) : e \in StoreEntities}]
    /\ \A e \in StoreEntities : files[e].kind = "json" => files[e] = OldRecord(e)
    /\ \E e1, e2 \in StoreEntities :
       \E p1 \in MergeRecords(e1) : \E p2 \in MergeRecords(e2) :
          mg = [w \in Workers |->
                  [pc |-> "read",
                   operator_name |-> IF w = 1 THEN e1 ELSE e2,
                   data_to_add |-> IF w = 1 THEN p1 ELSE p2,
                   operator_data |-> EmptyRec,
                   ok |-> FALSE,
                   pre |-> files]]

\* os.makedirs, then: if os.path.exists(file_path): operator_data =
\* json.load(json_file).  A file json.load cannot read ends the call in the
\* except clause.
MergeRead(w) ==
    /\ mg[w].pc = "read"
    /\ LET cur == files[file_path(mg[w].operator_name)] IN
          mg' = [mg EXCEPT ![w] =
                   IF cur.kind = "corrupt"
                   THEN [@ EXCEPT !.pc = "returned", !.ok = FALSE]
                   ELSE [@ EXCEPT !.pc = "overlay",
                                  !.operator_data =
                                      IF cur.kind = "json" THEN cur.data ELSE EmptyRec]]
    /\ UNCHANGED <<storeVars, locVars, calls, mainVars, fx>>

\* for key, value in data_to_add.items(): operator_data[key] = value
MergeOverlay(w) ==
    /\ mg[w].pc = "overlay"
    /\ mg' = [mg EXCEPT ![w] =
                [@ EXCEPT !.pc = "open",
                          !.operator_data = MergeNewData(@, mg[w].data_to_add)]]
    /\ UNCHANGED <<storeVars, locVars, calls, mainVars, fx>>

\* open(file_path, "w"): the file is created or cut to length 0, which
\* json.load cannot read.
MergeOpen(w) ==
    /\ mg[w].pc = "open"
    /\ files' = [files EXCEPT ![file_path(mg[w].operator_name)] = Corrupt]
    /\ mg' = [mg EXCEPT ![w] = [@ EXCEPT !.pc = "dump"]]
    /\ UNCHANGED <<dirExists, locVars, calls, mainVars, fx>>

\* json.dump and the close of the file, then return True.  The text goes
\* to the start of the file: over a file that is still empty it is the
\* file; over the text another caller wrote meanwhile it replaces that text
\* or, being shorter, leaves a tail of it behind.
MergeDump(w) ==
    /\ mg[w].pc = "dump"
    /\ LET path == file_path(mg[w].operator_name) IN
       \E result \in (IF files[path] = Corrupt
                      THEN {Json(mg[w].operator_data)}
                      ELSE {Json(mg[w].operator_data), Corrupt}) :
          files' = [files EXCEPT ![path] = result]
    /\ mg' = [mg EXCEPT ![w] = [@ EXCEPT !.pc = "returned", !.ok = TRUE]]
    /\ UNCHANGED <<dirExists, locVars, calls, mainVars, fx>>

MergeNext ==
    \E w \in Workers :
       MergeRead(w) \/ MergeOverlay(w) \/ MergeOpen(w) \/ MergeDump(w)

SpecMerge == MergeInit /\ [][MergeNext]_vars

\* The other caller.
Other(w) == CHOOSE o \in Workers : o # w

\* What the call of w leaves of its operator's record when it runs alone on
\* the store fs.
Alone(fs, w) ==
    save_operator_data(fs, mg[w].operator_name, mg[w].data_to_add, "ok")

\* C25: save_operator_data(E, p) changes only the record of E, also when
\* its read, overlay and write are interleaved with those of a call for
\* another operator E': until the call opens E's file for writing the record
\* of E is what it was, when the call has returned it is what the call run
\* alone leaves, and the record of an operator no call is for never changes;
\* no record holds a field produced for another operator.
C25_MergeTouchesOnlyItsRecord ==
    /\ \A e \in StoreEntities :
          \A f \in DOMAIN files[e].data : files[e].data[f].of = e
    /\ \A w \in Workers :
          LET E == mg[w].operator_name IN
          mg[Other(w)].operator_name # E =>
             /\ mg[w].pc \in {"read", "overlay", "open"} => files[E] = mg[w].pre[E]
             /\ mg[w].pc = "returned" =>
                   /\ files[E] = Alone(mg[w].pre, w).files[E]
                   /\ mg[w].ok = Alone(mg[w].pre, w).ok
    /\ \A e \in StoreEntities :
          (\A w \in Workers : mg[w].operator_name # e) => files[e] = mg[1].pre[e]

\* Two calls for different operators have returned, the second having read
\* its file while the first was between its read and its write.
C25_Witness ==
    /\ mg[1].operator_name = "A"
    /\ mg[2].operator_name = "B"
    /\ mg[1].pc = "returned" /\ mg[1].ok
    /\ mg[2].pc = "returned" /\ mg[2].ok
    /\ mg[1].pre["A"] = OldRecord("A")
    /\ mg[1].pre["B"] = OldRecord("B")
    /\ DOMAIN mg[1].data_to_add = {"stats"}
    /\ DOMAIN files["A"].data = {"info", "stats", "talents"}
    /\ DOMAIN files["B"].data = {"info", "stats", "talents"}
    /\ files["B"].data["stats"].of = "B"

LocateInit ==
    /\ StoreIdle
    /\ RunIdle
    /\ fx = FxIdle
    /\ mode = "safe_find_element"
    /\ ga = GaIdle
    /\ mg = <<>>
    /\ sf_pc = "loop"
    /\ sf_args \in [parent : BOOLEAN, wait_time : {0, DEFAULT_WAIT_TIME},
                    optional : BOOLEAN]
    /\ sf_retry_count = 0
    /\ sf_errors = <<>>
    /\ sf_result = None
    /\ sf_printed = FALSE
    /\ sf_probes = <<>>
    /\ sf_sleeps = 0

\* One pass of the while loop: the loop test, the probe in the try block and
\* the except clause, up to the return or the sleep.
FindProbe ==
    /\ sf_pc = "loop"
    /\ IF LoopContinues(sf_retry_count, sf_result)
       THEN \E o \in ProbeOutcomes(sf_args.parent, sf_args.wait_time) :
              /\ sf_probes' = Append(sf_probes, o)
              /\ IF o = "found"
                 THEN /\ sf_result' = "element"
                      /\ sf_pc' = "returned"
                      /\ UNCHANGED <<sf_retry_count, sf_errors, sf_printed>>
                 ELSE IF o \in TransientErrors
                 THEN /\ sf_retry_count' = sf_retry_count + 1
                      /\ sf_errors' = Append(sf_errors, o)
                      /\ IF RetryExhausted(sf_retry_count')
                         THEN /\ sf_printed' = ReportsFailure(sf_args.optional)
                              /\ sf_pc' = "returned"
                         ELSE /\ sf_pc' = "sleep"
                              /\ UNCHANGED sf_printed
                      /\ UNCHANGED sf_result
                 ELSE /\ sf_pc' = "raised"
                      /\ UNCHANGED <<sf_retry_count, sf_errors, sf_result, sf_printed>>
       ELSE /\ sf_pc' = "returned"
            /\ UNCHANGED <<sf_retry_count, sf_errors, sf_result, sf_printed, sf_probes>>
    /\ UNCHANGED <<storeVars, calls, runVars, sf_args, sf_sleeps>>

\* time.sleep(0.5), then back to the loop test.
FindSleep ==
    /\ sf_pc = "sleep"
    /\ sf_sleeps' = sf_sleeps + 1
    /\ sf_pc' = "loop"
    /\ UNCHANGED <<storeVars, calls, runVars, sf_args, sf_retry_count, sf_errors,
                   sf_result, sf_printed, sf_probes>>

LocateNext == FindProbe \/ FindSleep

SpecLocate == LocateInit /\ [][LocateNext]_vars

\* Every probe made so far ended in a transient failure.
NeverMatched == \A i \in 1..Len(sf_probes) : sf_probes[i] \in TransientErrors

\* C10: with optional=True and a selector that never matches, the call makes
\* at most MAX_RETRY_ATTEMPTS probes, never raises, and returns None exactly
\* when MAX_RETRY_ATTEMPTS probes have been made.
C10_OptionalMissingAfterMaxProbes ==
    (sf_args.optional /\ NeverMatched) =>
       /\ Len(sf_probes) <= MAX_RETRY_ATTEMPTS
       /\ sf_pc # "raised"
       /\ sf_pc = "returned" => (sf_result = None /\ Len(sf_probes) = MAX_RETRY_ATTEMPTS)
       /\ (Len(sf_probes) = MAX_RETRY_ATTEMPTS) => sf_pc = "returned"

C10_Witness ==
    /\ sf_args.optional
    /\ NeverMatched
    /\ Len(sf_probes) = 3
    /\ sf_pc = "returned"
    /\ sf_result = None
    /\ ~sf_printed

(***************************************************************************)
(* safe_find_elements (SpecLocateAll).                                     *)
(***************************************************************************)
\* The lists find_elements can answer with, in document order.
ElementLists == {<<>>, <<"e1">>, <<"e1", "e2">>}

\* What one probe of safe_find_elements can end in: a list ("list0",
\* "list1", "list2" by its length) or an exception.  find_elements answers an
\* empty list where nothing matches; without a parent and with wait_time > 0
\* WebDriverWait comes first and times out where nothing is present.
ProbeAllOutcomes(parent, wait_time) ==
    IF parent
    THEN {"list0", "list1", "list2", "StaleElementReferenceException",
          "WebDriverException"}
    ELSE IF wait_time > 0
         THEN {"list0", "list1", "list2", "TimeoutException",
               "StaleElementReferenceException", "WebDriverException"}
         ELSE {"list0", "list1", "list2", "WebDriverException"}

ListOf(o) ==
    IF o = "list1" THEN <<"e1">>
    ELSE IF o = "list2" THEN <<"e1", "e2">>
    ELSE <<>>

\* while retry_count < MAX_RETRY_ATTEMPTS and not elements
LoopAllContinues(retry_count, elements) ==
    retry_count < MAX_RETRY_ATTEMPTS /\ elements = <<>>

\* safe_find_elements(driver, by, selector, parent, wait_time) is called.
LocateAllInit ==
    /\ StoreIdle
    /\ RunIdle
    /\ fx = FxIdle
    /\ mode = "safe_find_elements"
    /\ ga = GaIdle
    /\ mg = <<>>
    /\ sf_pc = "loop"
    /\ sf_args \in [parent : BOOLEAN, wait_time : {0, 1, DEFAULT_WAIT_TIME},
                    optional : {FALSE}]
    /\ sf_retry_count = 0
    /\ sf_errors = <<>>
    /\ sf_result = <<>>
    /\ sf_printed = FALSE
    /\ sf_probes = <<>>
    /\ sf_sleeps = 0

\* One pass of the while loop of safe_find_elements: the probe, then
\* "return elements" whatever the list holds, or the except clause.
FindAllProbe ==
    /\ sf_pc = "loop"
    /\ IF LoopAllContinues(sf_retry_count, sf_result)
       THEN \E o \in ProbeAllOutcomes(sf_args.parent, sf_args.wait_time) :
              /\ sf_probes' = Append(sf_probes, o)
              /\ IF o \in {"list0", "list1", "list2"}
                 THEN /\ sf_result' = ListOf(o)
                      /\ sf_pc' = "returned"
                      /\ UNCHANGED <<sf_retry_count, sf_printed>>
                 ELSE IF o \in TransientErrors
                 THEN /\ sf_retry_count' = sf_retry_count + 1
                      /\ IF RetryExhausted(sf_retry_count')
                         THEN /\ sf_printed' = TRUE
                              /\ sf_result' = <<>>
                              /\ sf_pc' = "returned"
                         ELSE /\ sf_pc' = "sleep"
                              /\ UNCHANGED <<sf_printed, sf_result>>
                 ELSE /\ sf_pc' = "raised"
                      /\ UNCHANGED <<sf_retry_count, sf_result, sf_printed>>
       ELSE /\ sf_pc' = "returned"
            /\ UNCHANGED <<sf_retry_count, sf_result, sf_printed, sf_probes>>
    /\ UNCHANGED <<storeVars, calls, runVars, sf_args, sf_sleeps, sf_errors>>

LocateAllNext == FindAllProbe \/ FindSleep

SpecLocateAll == LocateAllInit /\ [][LocateAllNext]_vars

\* No probe so far ended in an error that is not transient.
OnlyTransientFailures ==
    \A i \in 1..Len(sf_probes) : sf_probes[i] # "WebDriverException"

\* C13: safe_find_elements never raises on a transient failure and returns
\* an ordered, possibly empty sequence; a probe that finds no element is
\* followed by another after the delay, until elements are found or
\* MAX_RETRY_ATTEMPTS probes have been made, with and without a parent.
C13_FindElementsRetriesWhileEmpty ==
    OnlyTransientFailures =>
       /\ sf_pc # "raised"
       /\ sf_result \in ElementLists
       /\ Len(sf_probes) <= MAX_RETRY_ATTEMPTS
       /\ sf_pc = "returned" =>
             (sf_result # <<>> \/ Len(sf_probes) = MAX_RETRY_ATTEMPTS)

\* The last probe made found the element.
LastProbeFound ==
    Len(sf_probes) >= 1 /\ sf_probes[Len(sf_probes)] = "found"

\* C11: with optional=False and a selector that never matches, the failure
\* (the printed message and the None returned with it) comes only after
\* MAX_RETRY_ATTEMPTS probes that all failed, and comes then; nothing is
\* reported while fewer probes have been made, and a probe that finds the
\* element on attempt 1, 2 or 3 returns it with nothing reported.
C11_RequiredFailsOnlyAfterMaxProbes ==
    ~sf_args.optional =>
       /\ sf_printed =>
             /\ Len(sf_probes) = MAX_RETRY_ATTEMPTS
             /\ NeverMatched
             /\ sf_pc = "returned"
             /\ sf_result = None
       /\ (NeverMatched /\ sf_pc = "returned") =>
             (Len(sf_probes) = MAX_RETRY_ATTEMPTS /\ sf_printed)
       /\ (NeverMatched /\ Len(sf_probes) < MAX_RETRY_ATTEMPTS) =>
             sf_pc \in {"loop", "sleep"}
       /\ LastProbeFound =>
             /\ Len(sf_probes) <= MAX_RETRY_ATTEMPTS
             /\ sf_pc = "returned"
             /\ sf_result = "element"
             /\ ~sf_printed

\* A required locate gave up after three failed probes and two sleeps.
C11_Witness ==
    /\ ~sf_args.optional
    /\ NeverMatched
    /\ Len(sf_probes) = 3
    /\ sf_sleeps = 2
    /\ sf_pc = "returned"
    /\ sf_printed

\* The call has ended with its retry budget used up.
Exhausted ==
    /\ sf_pc \in {"returned", "raised"}
    /\ NeverMatched
    /\ Len(sf_probes) = MAX_RETRY_ATTEMPTS

\* What the caller of safe_find_element gets: an exception or the value.
CallerSees == IF sf_pc = "raised" THEN "raised" ELSE sf_result

\* C12 as stated: on exhaustion a required locate hands its caller a failure
\* signal the caller can tell apart from the Missing (None) an optional
\* locate returns without any signal.
C12_RequiredSignalsCaller ==
    Exhausted =>
       IF sf_args.optional THEN CallerSees = None ELSE CallerSees # None

\* C12, amended: on exhaustion a required locate and an optional one hand
\* their caller the same None, without raising; they differ only in the
\* failure message the required one prints.
C12_ExhaustionReturnsNoneEitherWay ==
    Exhausted =>
       /\ CallerSees = None
       /\ sf_printed = ~sf_args.optional

C12_Witness ==
    /\ Exhausted
    /\ ~sf_args.optional
    /\ sf_args.parent
    /\ CallerSees = None
    /\ sf_printed

(***************************************************************************)
(* The main program: process_operator and process_all_operators.           *)
(***************************************************************************)
\* Length of the operator list get_all_operators returned.
NumOperators == 3

\* Faults the environment injects in one run: a session that dies, an
\* extractor that meets an error, a file that cannot be read or written.
MaxFaults == 1

NamePool == <<"A", "B", "C", "D", "E", "F">>

operator_names == SubSeq(NamePool, 1, NumOperators)

Operators == {operator_names[i] : i \in 1..Len(operator_names)}

\* The extractors process_operator calls after operator_info, in its order.
ExtractorOrder ==
    <<"info", "stats", "potential", "promotion", "skills", "costs", "talents">>

Extractors == {ExtractorOrder[i] : i \in 1..Len(ExtractorOrder)}

\* The keys an extractor hands to save_operator_data.
UnitFields(u) ==
    IF u = "costs" THEN {"skill_upgrade_costs", "mastery_costs"} ELSE {u}

\* The document source is stable: a page has the section an extractor reads,
\* or it has not.  The pages the model draws from.
FullDoc == Extractors

SparseDoc == {"skills"}

\* A page whose skill upgrade table is there but yields no material.
BareTableDoc == {"skills", "costs_table"}

DocShapes == {FullDoc, SparseDoc, BareTableDoc}

\* A page that does not exist: the sidebar load_operator_page waits for
\* never shows.
NoPage == {"no_page"}

\* driver.get and the wait for the sidebar on a page with these sections, the
\* session answering.
PageLoads(sections) == sections # NoPage

\* The sites a batch is run against: every page full, or full and sparse
\* pages alternating along the operator list.
SiteKinds == {"full", "mixed"}

\* Whether extractor u, run to its end on a page with these sections, calls
\* save_operator_data: extract_operator_info_with_selenium saves whatever it
\* found (also an empty info), every other extractor only a non-empty result.
\* extract_skill_upgrade_costs saves whenever it found the upgrade table: its
\* test "upgrade_costs or any(skill["masteries"] ...)" is true of every
\* mastery_costs, the "masteries" dictionaries having three keys each.
UnitSaves(u, sections) ==
    \/ u = "info"
    \/ u \in sections
    \/ u = "costs" /\ "costs_table" \in sections

\* The partial record extractor u saves for operator e.
UnitData(e, u, sections) ==
    [f \in UnitFields(u) |-> V(e, IF u \in sections THEN "doc" ELSE "empty")]

\* Every extract_* function wraps its body in try / except Exception.
UnitLeaksErrors(u) == u = "info"

UnitCatchesErrors(u) == TRUE

\* The browser behind driver drv answers commands.  sess lists every session
\* create_driver was asked for: "active", "dead" (it stopped answering),
\* "closed" (quit went through) or "failed" (it never came up); driver 0 is
\* None.
SessionAnswers(drv, sess) == drv # 0 /\ sess[drv] = "active"

\* is_driver_alive(driver): True when reading driver.current_url succeeds,
\* False on any error of it, also the AttributeError of a None driver.
ProbeObjectOnly(drv, sess) == drv # 0

is_driver_alive(drv, sess) ==
    IF drv = 0 THEN FALSE ELSE SessionAnswers(drv, sess)

\* Whether driver.quit() can raise (TRUE): not on a session that answers.
CloseOutcomes(drv, sess) ==
    IF SessionAnswers(drv, sess) THEN {FALSE}
    ELSE IF drv = 0 THEN {TRUE}
    ELSE BOOLEAN

\* driver.quit() inside try / except: an error of it (err) is swallowed and
\* leaves the session as it was.
driver_quit(drv, sess, err) ==
    IF drv # 0 /\ ~err THEN [sess EXCEPT ![drv] = "closed"] ELSE sess

\* create_driver(): a new session, or None when webdriver.Chrome fails.
create_driver(sess, ok) ==
    IF ok THEN [driver |-> Len(sess) + 1, sessions |-> Append(sess, "active")]
    ELSE [driver |-> 0, sessions |-> Append(sess, "failed")]

\* process_operator on a failed probe: try: driver.quit() / except: pass,
\* then driver = create_driver().
RecreateFatalOnCloseError(drv, sess, err, ok) ==
    IF err THEN [driver |-> 0, sessions |-> sess]
    ELSE create_driver(driver_quit(drv, sess, err), ok)

Recreate(drv, sess, err, ok) == create_driver(driver_quit(drv, sess, err), ok)

\* process_operator: if clean_before_run: cleanup_operator_files(operator_name)
AlwaysClean(clean) == TRUE

ShouldClean(clean) == clean

\* load_operator_page: if retry_count >= MAX_RETRY_ATTEMPTS: return False
LoadExhaustedEarly(retry_count) == retry_count >= MAX_RETRY_ATTEMPTS - 1

LoadExhausted(retry_count) == retry_count >= MAX_RETRY_ATTEMPTS

\* The answers of the file system to a save the fault budget still allows.
AllowedIo(file) ==
    IF faults < MaxFaults THEN IoOutcomes(file) ELSE {"ok"}

\* The files an earlier run left: none and no directory ("fresh"), or by
\* list position a record, an unreadable file, no file ("mixed").
PriorKinds == {"fresh", "mixed"}

Position(e) == CHOOSE i \in 1..Len(operator_names) : operator_names[i] = e

PriorFiles(kind) ==
    [e \in Operators |->
       IF kind = "fresh" THEN NoFile
       ELSE IF Position(e) % 3 = 1 THEN OldRecord(e)
       ELSE IF Position(e) % 3 = 2 THEN Corrupt
       ELSE NoFile]

\* The sites the batch is run twice against: those, and one with a page
\* missing ("gaps").
RerunSiteKinds == SiteKinds \cup {"gaps"}

SiteDoc(site) ==
    [e \in Operators |->
       IF site = "full" THEN FullDoc
       ELSE IF site = "gaps" /\ Position(e) % 3 = 2 THEN NoPage
       ELSE IF Position(e) % 2 = 1 THEN FullDoc ELSE SparseDoc]

\* What main has done before it calls process_operator or
\* process_all_operators: a session created, the operator list read.  Where
\* the batch is run twice ("rerun") the environment is stable: it injects no
\* fault, and a page loads or does not by what the site holds.
RunInit(m) ==
    /\ LocIdle
    /\ calls = <<>>
    /\ mode = m
    /\ \E kind \in PriorKinds :
          /\ dirExists = (kind # "fresh")
          /\ files = PriorFiles(kind)
    /\ merged = [e \in Operators |->
                   IF files[e].kind = "json" THEN {"info", "talents"} ELSE {}]
    /\ driver = 1
    /\ sessions = <<"active">>
    /\ faults = (IF m = "rerun" THEN MaxFaults ELSE 0)
    /\ index = 0
    /\ successful = 0
    /\ failed = 0
    /\ lp = NoLoad
    /\ unit = 0
    /\ ran = <<>>
    /\ tally = <<>>
    /\ counted = [i \in 1..Len(operator_names) |-> 0]
    /\ stopped = FALSE
    /\ slept = 0
    /\ kept = <<>>
    /\ ga = GaIdle
    /\ mg = <<>>
    /\ fx = FxIdle

\* main, choice 2: process_all_operators(driver, operator_names, clean_before_run)
BatchInit ==
    /\ RunInit("batch")
    /\ pc = "pa_start"
    /\ clean_before_run \in BOOLEAN
    /\ \E site \in SiteKinds : doc = SiteDoc(site)
    /\ po = [operator_name |-> "", clean_before_run |-> FALSE, success |-> FALSE,
             loaded |-> "no"]
    /\ snap = files

\* main, choices 1 and 3: process_operator(driver, name, clean_before_run)
OperatorInit ==
    /\ RunInit("single")
    /\ pc = "po_start"
    /\ clean_before_run = FALSE
    /\ \E name \in Operators : \E clean \in BOOLEAN :
          /\ po = [operator_name |-> name, clean_before_run |-> clean,
                   success |-> FALSE, loaded |-> "no"]
          /\ doc \in [Operators -> DocShapes]
          /\ \A o \in Operators \ {name} : doc[o] = FullDoc
    /\ snap = files

\* The call process_operator(driver, name, clean) made by process_all_operators.
CallProcessOperator(name, clean) ==
    /\ po' = [operator_name |-> name, clean_before_run |-> clean,
              success |-> FALSE, loaded |-> "no"]
    /\ pc' = "po_start"
    /\ ran' = <<>>
    /\ snap' = files'

\* process_operator up to its page load: the optional cleanup, the liveness
\* probe and, for a dead or missing session, quit and create_driver.
PO_Begin ==
    /\ pc = "po_start"
    /\ LET cl == IF ShouldClean(po.clean_before_run)
                 THEN cleanup_operator_files(dirExists, files, po.operator_name)
                 ELSE [ok |-> TRUE, dir |-> dirExists, files |-> files]
       IN  /\ dirExists' = cl.dir
           /\ files' = cl.files
    /\ merged' = IF po.clean_before_run
                 THEN [merged EXCEPT ![po.operator_name] = {}] ELSE merged
    /\ IF is_driver_alive(driver, sessions)
       THEN /\ UNCHANGED <<driver, sessions, po>>
            /\ pc' = "load"
            /\ lp' = [caller |-> "process_operator", retry_count |-> 0, gets |-> 0]
       ELSE \E err \in CloseOutcomes(driver, sessions) : \E ok \in BOOLEAN :
              LET c == Recreate(driver, sessions, err, ok) IN
              /\ driver' = c.driver
              /\ sessions' = c.sessions
              /\ IF c.driver = 0
                 THEN /\ pc' = "po_returned"
                      /\ po' = [po EXCEPT !.success = FALSE]
                      /\ UNCHANGED lp
                 ELSE /\ pc' = "load"
                      /\ lp' = [caller |-> "process_operator", retry_count |-> 0, gets |-> 0]
                      /\ UNCHANGED po
    /\ UNCHANGED <<locVars, calls, mode, auxVars, doc, faults, batchVars, unit, ran, snap>>

\* The ways driver.get and the wait for the sidebar can end (TRUE: loaded).
\* A dead session fails every time.  On a live one the first load of a call
\* may fail at will (a page that is down or slow); once the page has loaded,
\* operator_info's reload of it fails only as a fault.
LoadOutcomes(caller) ==
    IF ~SessionAnswers(driver, sessions) THEN {FALSE}
    ELSE IF mode = "rerun" THEN {PageLoads(doc[po.operator_name])}
    ELSE IF caller = "process_operator" \/ faults < MaxFaults THEN BOOLEAN
    ELSE {TRUE}

LoadCost(caller, ok) ==
    IF ~ok /\ SessionAnswers(driver, sessions) /\ caller # "process_operator"
    THEN 1 ELSE 0

\* One pass of the loop of load_operator_page (driver.get, the wait for the
\* sidebar, the except clause with its sleep), and on its return the step of
\* the caller: process_operator aborts or calls operator_info, which loads
\* the page again; operator_info goes on to its save or returns False.
LoadAttempt ==
    /\ pc = "load"
    /\ \E ok \in LoadOutcomes(lp.caller) :
         LET rc == IF ok THEN lp.retry_count ELSE lp.retry_count + 1 IN
         /\ faults' = faults + LoadCost(lp.caller, ok)
         /\ IF ~ok /\ ~LoadExhausted(rc)
            THEN /\ lp' = [lp EXCEPT !.retry_count = rc, !.gets = @ + 1]
                 /\ UNCHANGED <<pc, po, unit, ran>>
            ELSE IF lp.caller = "process_operator"
            THEN IF ok
                 THEN /\ po' = [po EXCEPT !.loaded = "yes"]
                      /\ lp' = [caller |-> "operator_info", retry_count |-> 0, gets |-> 0]
                      /\ UNCHANGED <<pc, unit, ran>>
                 ELSE /\ po' = [po EXCEPT !.loaded = "failed", !.success = FALSE]
                      /\ pc' = "po_returned"
                      /\ lp' = NoLoad
                      /\ UNCHANGED <<unit, ran>>
            ELSE IF ok
                 THEN /\ pc' = "op_info_save"
                      /\ lp' = NoLoad
                      /\ UNCHANGED <<po, unit, ran>>
                 ELSE /\ pc' = "units"
                      /\ unit' = 1
                      /\ ran' = Append(ran, [unit |-> "operator_info",
                                             outcome |-> "none", saved |-> "no"])
                      /\ lp' = NoLoad
                      /\ UNCHANGED po
    /\ UNCHANGED <<storeVars, locVars, calls, mode, auxVars, sessVars, doc,
                   batchVars, snap, merged>>

\* operator_info after its page load: save_operator_data(name, {"info": {}}).
OperatorInfoSave ==
    /\ pc = "op_info_save"
    /\ \E io \in AllowedIo(files[po.operator_name]) :
         LET r == save_operator_data(files, po.operator_name,
                                     [f \in {"info"} |-> V(po.operator_name, "empty")], io)
         IN  /\ files' = r.files
             /\ dirExists' = TRUE
             /\ faults' = faults + (IF io = "ok" THEN 0 ELSE 1)
             /\ ran' = Append(ran, [unit |-> "operator_info", outcome |-> "data",
                                    saved |-> IF r.ok THEN "ok" ELSE "failed"])
             /\ merged' = IF r.ok
                          THEN [merged EXCEPT ![po.operator_name] = @ \cup {"operator_info"}]
                          ELSE merged
    /\ pc' = "units"
    /\ unit' = 1
    /\ UNCHANGED <<locVars, calls, mode, auxVars, sessVars, doc, batchVars, po, lp, snap>>

\* One extractor call of process_operator (reload_page=False), from
\* ExtractorOrder[unit]: it meets an error (always, on a dead session), finds
\* nothing to save, or saves its partial record.  An error an extractor did
\* not catch would reach the except clause of process_operator, which probes
\* the session, recreates a dead one and returns (driver, False).
RunUnit ==
    /\ pc = "units"
    /\ LET u == ExtractorOrder[unit]
           name == po.operator_name
           alive == SessionAnswers(driver, sessions)
           natural == IF UnitSaves(u, doc[name]) THEN "data" ELSE "none"
           outs == IF ~alive THEN {"error"}
                   ELSE {natural} \cup (IF faults < MaxFaults THEN {"error"} ELSE {})
       IN \E out \in outs :
          \E io \in (IF out = "data" THEN IoOutcomes(files[name]) ELSE {"ok"}) :
            LET r == IF out = "data"
                     THEN save_operator_data(files, name, UnitData(name, u, doc[name]), io)
                     ELSE [ok |-> FALSE, files |-> files]
                cost == (IF out = "error" /\ alive THEN 1 ELSE 0)
                        + (IF io = "ok" THEN 0 ELSE 1)
            IN  /\ faults + cost <= MaxFaults
                /\ faults' = faults + cost
                /\ files' = r.files
                /\ dirExists' = IF out = "data" THEN TRUE ELSE dirExists
                /\ ran' = Append(ran, [unit |-> u, outcome |-> out,
                                       saved |-> IF out # "data" THEN "no"
                                                 ELSE IF r.ok THEN "ok" ELSE "failed"])
                /\ merged' = IF r.ok THEN [merged EXCEPT ![name] = @ \cup {u}] ELSE merged
                /\ IF out = "error" /\ ~UnitCatchesErrors(u)
                   THEN \E ok \in (IF alive THEN {TRUE} ELSE BOOLEAN) :
                          LET c == IF is_driver_alive(driver, sessions)
                                   THEN [driver |-> driver, sessions |-> sessions]
                                   ELSE Recreate(driver, sessions, FALSE, ok)
                          IN  /\ driver' = c.driver
                              /\ sessions' = c.sessions
                              /\ po' = [po EXCEPT !.success = FALSE]
                              /\ pc' = "po_returned"
                              /\ UNCHANGED unit
                   ELSE /\ UNCHANGED sessVars
                        /\ IF unit = Len(ExtractorOrder)
                           THEN /\ pc' = "po_returned"
                                /\ po' = [po EXCEPT !.success = TRUE]
                                /\ UNCHANGED unit
                           ELSE /\ unit' = unit + 1
                                /\ UNCHANGED <<pc, po>>
    /\ UNCHANGED <<locVars, calls, mode, auxVars, doc, batchVars, lp, snap>>

\* The environment: the browser session stops answering.
SessionDies ==
    /\ pc \in {"po_start", "load", "units"}
    /\ SessionAnswers(driver, sessions)
    /\ faults < MaxFaults
    /\ sessions' = [sessions EXCEPT ![driver] = "dead"]
    /\ faults' = faults + 1
    /\ UNCHANGED <<storeVars, locVars, calls, mode, auxVars, pc, driver, doc, batchVars,
                   po, lp, unit, ran, snap, merged>>

\* main after process_operator returned (choices 1 and 3): finally driver.quit().
MainDone ==
    /\ pc = "po_returned"
    /\ mode = "single"
    /\ pc' = "exit"
    /\ \E err \in CloseOutcomes(driver, sessions) :
          sessions' = driver_quit(driver, sessions, err)
    /\ UNCHANGED <<storeVars, locVars, calls, mode, auxVars, driver, doc, faults, batchVars,
                   po, lp, unit, ran, snap, merged>>

\* for i, operator in enumerate(operator_names): the operator of pass i.
OperatorFromEnd(names, i) == names[Len(names) + 1 - i]

OperatorAt(names, i) == names[i]

\* process_all_operators up to the first call of process_operator.
PA_Start ==
    /\ pc = "pa_start"
    /\ LET cl == IF clean_before_run
                 THEN cleanup_operator_files(dirExists, files, None)
                 ELSE [ok |-> TRUE, dir |-> dirExists, files |-> files]
       IN  /\ dirExists' = cl.dir
           /\ files' = cl.files
    /\ merged' = IF clean_before_run THEN [e \in Operators |-> {}] ELSE merged
    /\ successful' = 0
    /\ failed' = 0
    /\ IF Len(operator_names) >= 1
       THEN /\ index' = 1
            /\ CallProcessOperator(OperatorAt(operator_names, 1), FALSE)
       ELSE /\ pc' = "pa_report"
            /\ UNCHANGED <<index, po, ran, snap>>
    /\ UNCHANGED <<locVars, calls, mode, auxVars, sessVars, doc, faults,
                   clean_before_run, tally, counted, stopped, slept, lp, unit>>

\* if not driver: (whatever success was) driver = create_driver()
NeedsNewDriverOnFailure(drv, success) == drv = 0 \/ ~success

NeedsNewDriverNever(drv, success) == FALSE

NeedsNewDriver(drv, success) == drv = 0

\* if not driver: (after create_driver) break
NeverBreaksBatch(drv) == FALSE

BreaksBatch(drv) == drv = 0

\* if success: successful += 1 / else: failed += 1
CountOutcomeAllSuccessful(success, s, f) == [successful |-> s + 1, failed |-> f]

CountOutcomeSkipsFailed(success, s, f) ==
    [successful |-> IF success THEN s + 1 ELSE s, failed |-> f]

CountOutcome(success, s, f) ==
    IF success THEN [successful |-> s + 1, failed |-> f]
    ELSE [successful |-> s, failed |-> f + 1]

\* The loop body after process_operator returned: the counters, and a new
\* session when process_operator handed back None; break when that fails.
PA_Count ==
    /\ pc = "po_returned"
    /\ mode \in {"batch", "rerun"}
    /\ LET c == CountOutcome(po.success, successful, failed)
       IN  /\ successful' = c.successful
           /\ failed' = c.failed
    /\ tally' = Append(tally, [name |-> po.operator_name, success |-> po.success,
                               loaded |-> po.loaded, units |-> Len(ran)])
    /\ counted' = [counted EXCEPT ![index] = @ + 1]
    /\ IF NeedsNewDriver(driver, po.success)
       THEN \E ok \in BOOLEAN :
              LET c == create_driver(sessions, ok) IN
              /\ driver' = c.driver
              /\ sessions' = c.sessions
              /\ pc' = IF BreaksBatch(c.driver) THEN "pa_report" ELSE "pa_sleep"
              /\ stopped' = BreaksBatch(c.driver)
       ELSE /\ pc' = "pa_sleep"
            /\ UNCHANGED <<driver, sessions, stopped>>
    /\ UNCHANGED <<storeVars, locVars, calls, mode, auxVars, doc, faults,
                   clean_before_run, index, slept, po, lp, unit, ran, snap, merged>>

\* Pause between operators to avoid rate limiting: time.sleep(1)
NoPause(n) == n

Pause(n) == n + 1

\* time.sleep(1), then the next pass of the for loop or its end.
PA_Sleep ==
    /\ pc = "pa_sleep"
    /\ slept' = Pause(slept)
    /\ files' = files
    /\ IF index < Len(operator_names)
       THEN /\ index' = index + 1
            /\ CallProcessOperator(OperatorAt(operator_names, index + 1), FALSE)
       ELSE /\ pc' = "pa_report"
            /\ UNCHANGED <<index, po, ran, snap>>
    /\ UNCHANGED <<dirExists, locVars, calls, mode, auxVars, sessVars, doc, faults,
                   clean_before_run, successful, failed, tally, counted, stopped,
                   lp, unit, merged>>

\* The tally is printed and the driver returned; main's finally quits it.
PA_Report ==
    /\ pc = "pa_report"
    /\ pc' = "exit"
    /\ \E err \in CloseOutcomes(driver, sessions) :
          sessions' = driver_quit(driver, sessions, err)
    /\ UNCHANGED <<storeVars, locVars, calls, mode, auxVars, driver, doc, faults, batchVars,
                   po, lp, unit, ran, snap, merged>>

\* main is run again after it has exited, the site and the operator list
\* being what they were: create_driver, get_all_operators, choice 2 with the
\* same answer.  kept records the files the run before left.
RunAgain ==
    /\ pc = "exit"
    /\ mode = "rerun"
    /\ kept = <<>>
    /\ kept' = <<files>>
    /\ LET c == create_driver(sessions, TRUE) IN
          /\ driver' = c.driver
          /\ sessions' = c.sessions
    /\ pc' = "pa_start"
    /\ index' = 0
    /\ successful' = 0
    /\ failed' = 0
    /\ tally' = <<>>
    /\ counted' = [i \in 1..Len(operator_names) |-> 0]
    /\ stopped' = FALSE
    /\ slept' = 0
    /\ po' = [operator_name |-> "", clean_before_run |-> FALSE, success |-> FALSE,
              loaded |-> "no"]
    /\ lp' = NoLoad
    /\ unit' = 0
    /\ ran' = <<>>
    /\ snap' = files
    /\ UNCHANGED <<storeVars, locVars, calls, mode, doc, faults, clean_before_run,
                   merged, ga, mg, fx>>

\* The steps process_operator takes.
OperatorStep == PO_Begin \/ LoadAttempt \/ OperatorInfoSave \/ RunUnit

OperatorNext == OperatorStep \/ SessionDies \/ MainDone

SpecOperator == OperatorInit /\ [][OperatorNext]_vars

BatchStep == PA_Start \/ PA_Count \/ PA_Sleep \/ PA_Report \/ OperatorStep

Next == BatchStep \/ SessionDies

Spec == BatchInit /\ [][Next]_vars

\* The program is sequential and keeps running: a step it can take, it takes.
FairSpec == Spec /\ WF_vars(BatchStep)

\* What one pass of the loop of get_all_operators can end in: names read
\* from the table, no name (safe_find_elements returned no element, or only
\* elements without text), or an exception of driver.get or of the wait for
\* the table.
ListPassOutcomes == {"names", "no_names", "TimeoutException", "WebDriverException"}

\* get_all_operators: while retry_count < MAX_RETRY_ATTEMPTS
GetAllContinuesOneMore(retry_count) == retry_count <= MAX_RETRY_ATTEMPTS

GetAllContinues(retry_count) == retry_count < MAX_RETRY_ATTEMPTS

\* main has created the session and calls get_all_operators(driver).
GetAllInit ==
    /\ LocIdle
    /\ StoreIdle
    /\ RunIdle
    /\ fx = FxIdle
    /\ mode = "list"
    /\ mg = <<>>
    /\ ga = [pc |-> "loop", retry_count |-> 0, operator_names |-> <<>>,
             passes |-> <<>>]

\* One pass of the loop of get_all_operators: break with the names, or
\* retry_count += 1 and time.sleep(1) when there are none or an exception was
\* caught; after the loop the count is printed and the list returned.
GetAllPass ==
    /\ ga.pc = "loop"
    /\ IF GetAllContinues(ga.retry_count)
       THEN \E o \in ListPassOutcomes :
              ga' = IF o = "names"
                    THEN [ga EXCEPT !.pc = "returned",
                                    !.operator_names = operator_names,
                                    !.passes = Append(@, o)]
                    ELSE [ga EXCEPT !.retry_count = @ + 1,
                                    !.passes = Append(@, o)]
       ELSE ga' = [ga EXCEPT !.pc = "returned"]
    /\ UNCHANGED <<storeVars, locVars, calls, mode, pc, driver, sessions, doc,
                   faults, batchVars, po, lp, unit, ran, snap, merged, kept, mg,
                   fx>>

\* Every function with a retry loop, each from its call: safe_find_element,
\* safe_find_elements, get_all_operators, and process_all_operators with
\* the calls of process_operator and load_operator_page it makes.
LoopsInit == LocateInit \/ LocateAllInit \/ GetAllInit \/ BatchInit

LoopsFind == mode = "safe_find_element" /\ FindProbe

LoopsFindAll == mode = "safe_find_elements" /\ FindAllProbe

LoopsStep == LoopsFind \/ LoopsFindAll \/ FindSleep \/ GetAllPass \/ BatchStep

LoopsNext == LoopsStep \/ SessionDies

\* The program keeps running: a step it can take, it takes.
SpecLoops == LoopsInit /\ [][LoopsNext]_vars /\ WF_vars(LoopsStep)

\* main, choice 2 with the store cleared first, run twice against a stable
\* site.
RerunInit ==
    /\ RunInit("rerun")
    /\ pc = "pa_start"
    /\ clean_before_run = TRUE
    /\ \E site \in RerunSiteKinds : doc = SiteDoc(site)
    /\ po = [operator_name |-> "", clean_before_run |-> FALSE, success |-> FALSE,
             loaded |-> "no"]
    /\ snap = files

RerunNext == BatchStep \/ RunAgain

SpecRerun == RerunInit /\ [][RerunNext]_vars

(***************************************************************************)
(* Properties of process_operator (SpecOperator).                          *)
(***************************************************************************)
\* The calls process_operator makes after its page load, in its order.
PipelineOrder == <<"operator_info">> \o ExtractorOrder

\* process_operator has returned (and, run alone, main may have exited).
Returned == pc \in {"po_returned", "exit"}

\* The record of the operator being processed holds every key of unit u.
HoldsFieldsOf(u) ==
    /\ files[po.operator_name].kind = "json"
    /\ \A f \in (IF u = "operator_info" THEN {"info"} ELSE UnitFields(u)) :
          f \in DOMAIN files[po.operator_name].data

\* C3: in process_operator, whichever extractor units fail (an error inside
\* the unit, or nothing found), the units run one after the other in the
\* declared order, all of them; a unit that has something to save and met no
\* error hands it to save_operator_data, and what was merged is in the
\* record; no failure leaves its unit: once the page has loaded the call
\* returns success after the last unit.
C3_UnitFailuresIsolated ==
    /\ Len(ran) <= Len(PipelineOrder)
    /\ \A i \in 1..Len(ran) :
          /\ ran[i].unit = PipelineOrder[i]
          /\ (i > 1 /\ ran[i].outcome # "error"
                /\ UnitSaves(ran[i].unit, doc[po.operator_name]))
                => ran[i].outcome = "data"
          /\ ran[i].outcome = "data" => ran[i].saved # "no"
          /\ ran[i].saved = "ok" => HoldsFieldsOf(ran[i].unit)
    /\ pc = "units" => Len(ran) = unit
    /\ (Returned /\ po.loaded = "yes") =>
          /\ Len(ran) = Len(PipelineOrder)
          /\ po.success

\* An extractor met an error, another found nothing, and a later one merged.
C3_Witness ==
    /\ pc = "po_returned"
    /\ po.success
    /\ \E i, j, k \in 1..Len(ran) :
          /\ i < k
          /\ j < k
          /\ i > 1
          /\ ran[i].outcome = "error"
          /\ ran[j].outcome = "none"
          /\ ran[k].saved = "ok"

\* A save of this call of process_operator returned True.
MergedInThisRun == \E i \in 1..Len(ran) : ran[i].saved = "ok"

\* C6: process_operator classifies an entity as succeeded if and only if at
\* least one partial record was merged into the store for it during this run;
\* an entity for which no merge succeeded is classified failed.
C6_SucceededIffMerged ==
    pc = "po_returned" => (po.success <=> MergedInThisRun)

(***************************************************************************)
(* Properties of the store across a run (Spec).                            *)
(***************************************************************************)
\* A persisted record for e exists.
RecordExists(e) == files[e].kind = "json"

RequestedClear(e) ==
    \/ pc = "pa_start" /\ clean_before_run
    \/ pc = "po_start" /\ po.clean_before_run /\ e = po.operator_name

\* A step keeps what e's file holds: the file, and every key of a record.
KeepsRecord(e) ==
    /\ files[e] # NoFile => files'[e] # NoFile
    /\ (RecordExists(e) /\ files'[e] # NoFile) =>
          /\ files'[e].kind = "json"
          /\ DOMAIN files[e].data \subseteq DOMAIN files'[e].data

Attempted == 1..Len(tally)

Succeeded == {i \in Attempted : tally[i].success}

Failed == {i \in Attempted : ~tally[i].success}

\* The page of the operator at position i did not load: every attempt failed.
NavigationFailed(i) == tally[i].loaded = "failed"

\* C4 as stated: an operator whose every load attempt fails is counted failed
\* exactly once, one whose page loads is counted succeeded, and after a
\* failed navigation every later operator of the list is still processed.
C4_NavigationFailureGoesOn ==
    pc = "pa_report" =>
       /\ successful = Cardinality(Succeeded)
       /\ failed = Cardinality(Failed)
       /\ \A i \in Attempted :
             /\ NavigationFailed(i) => (i \in Failed /\ counted[i] = 1)
             /\ tally[i].loaded = "yes" => i \in Succeeded
       /\ (\E i \in Attempted : NavigationFailed(i)) =>
             Len(tally) = Len(operator_names)

\* C4, amended: operators are counted in list order, one whose every load
\* attempt fails as failed exactly once and one whose page loads as
\* succeeded; every later operator is still processed unless the batch stops
\* because no new browser session could be created, and only then is the
\* list cut short.
C4_NavigationFailureGoesOnUnlessStopped ==
    /\ \A i \in Attempted :
          /\ tally[i].name = operator_names[i]
          /\ NavigationFailed(i) => (i \in Failed /\ counted[i] = 1)
          /\ tally[i].loaded = "yes" => i \in Succeeded
    /\ pc \in {"pa_sleep", "pa_report", "exit"} =>
          /\ successful = Cardinality(Succeeded)
          /\ failed = Cardinality(Failed)
    /\ stopped => (driver = 0 /\ pc \in {"pa_report", "exit"})
    /\ (pc = "pa_report" /\ ~stopped) => Len(tally) = Len(operator_names)

\* The list [A, B, C]: every load attempt for B failed, A and C loaded.
C4_Witness ==
    /\ pc = "pa_report"
    /\ Len(tally) >= 3
    /\ tally[1].loaded = "yes" /\ tally[1].success
    /\ NavigationFailed(2) /\ ~tally[2].success
    /\ tally[3].loaded = "yes" /\ tally[3].success
    /\ successful = Len(tally) - 1
    /\ failed = 1
    /\ is_driver_alive(driver, sessions)

\* C5: whatever fails, process_all_operators reaches its tally report; there
\* successful + failed is the number of operators attempted, each attempted
\* operator has been counted exactly once and no other has been counted.
C5_BatchReachesTally ==
    /\ (pc = "pa_start") ~> (pc = "pa_report")
    /\ [](pc = "pa_report" =>
            /\ successful + failed = Len(tally)
            /\ \A i \in 1..Len(operator_names) :
                  counted[i] = IF i \in Attempted THEN 1 ELSE 0)

\* The session died during the batch and was replaced; the report is reached
\* with operators of both kinds counted.
C5_Witness ==
    /\ pc = "pa_report"
    /\ Len(sessions) >= 2
    /\ successful >= 1
    /\ failed >= 1
    /\ successful + failed = Len(operator_names)

(***************************************************************************)
(* Properties of load_operator_page (SpecOperator).                        *)
(***************************************************************************)
\* The step is one pass of the loop of load_operator_page.
LoadPass == pc = "load" /\ lp' # lp

\* The pass ends the call with True: the caller goes on.
LoadReturnsTrue ==
    \/ lp.caller = "process_operator" /\ po'.loaded = "yes"
    \/ lp.caller = "operator_info" /\ pc' = "op_info_save"

\* The pass ends the call with False: process_operator aborts, operator_info
\* returns False without its save.
LoadReturnsFalse ==
    \/ lp.caller = "process_operator" /\ po'.loaded = "failed"
    \/ lp.caller = "operator_info" /\ pc' = "units"

\* C14: load_operator_page makes at most MAX_RETRY_ATTEMPTS attempts, every
\* one of them a whole load starting with driver.get; it returns True in the
\* first attempt that succeeds and False exactly when the third attempt has
\* failed too, and every failure stays inside it.
C14_LoadBoundedAttempts ==
    /\ [](pc = "load" =>
            /\ lp.retry_count < MAX_RETRY_ATTEMPTS
            /\ lp.gets = lp.retry_count
            /\ lp.caller \in {"process_operator", "operator_info"})
    /\ [][LoadPass =>
            /\ LoadReturnsTrue => SessionAnswers(driver, sessions)
            /\ LoadReturnsFalse <=>
                  (~LoadReturnsTrue /\ lp.retry_count = MAX_RETRY_ATTEMPTS - 1)
            /\ (~LoadReturnsTrue /\ ~LoadReturnsFalse) =>
                  /\ pc' = "load"
                  /\ lp'.caller = lp.caller
                  /\ lp'.retry_count = lp.retry_count + 1
                  /\ lp'.gets = lp.gets + 1
            /\ pc' \in {"load", "op_info_save", "units", "po_returned"}]_vars

\* Two attempts have failed on a session that answers; the third is due.
C14_Witness ==
    /\ pc = "load"
    /\ lp.caller = "process_operator"
    /\ lp.retry_count = 2
    /\ lp.gets = 2
    /\ SessionAnswers(driver, sessions)

(***************************************************************************)
(* Properties of the session handling (Spec).                              *)
(***************************************************************************)
\* Every driver value the program can hold: None (0) or a session asked for.
DriverValues == 0..Len(sessions)

RecreateStep == pc = "po_start" /\ ~SessionAnswers(driver, sessions)

\* The last create_driver call failed.
CreationFailed(sess) == Len(sess) >= 1 /\ sess[Len(sess)] = "failed"

\* C16: on a failed probe process_operator tries to close the old session,
\* goes on whether or not the close raised, and calls create_driver once; it
\* is left without a session exactly when that creation failed, never by a
\* close error alone, and the batch gives up only after its own second
\* create_driver call has failed as well.
C16_FatalOnlyWhenCreationFails ==
    /\ [][RecreateStep =>
            /\ Len(sessions') = Len(sessions) + 1
            /\ driver # 0 => sessions'[driver] \in {"closed", sessions[driver]}
            /\ driver' = 0 <=> CreationFailed(sessions')
            /\ driver' # 0 =>
                  /\ driver' = Len(sessions')
                  /\ sessions'[driver'] = "active"
                  /\ pc' = "load"
            /\ driver' = 0 => (pc' = "po_returned" /\ ~po'.success)]_vars
    /\ [](stopped =>
            /\ Len(sessions) >= 3
            /\ sessions[Len(sessions)] = "failed"
            /\ sessions[Len(sessions) - 1] = "failed")

\* The close of the dead session raised and a new session was created all
\* the same.
C16_Witness ==
    /\ pc = "load"
    /\ driver >= 2
    /\ sessions[driver] = "active"
    /\ sessions[driver - 1] = "dead"
    /\ lp.retry_count = 0

\* process_operator is at work on its driver: loading or extracting.
AtWork == pc \in {"load", "op_info_save", "units"}

\* C17 as stated: no navigation or extractor unit is executed on a session
\* that is dead; whenever the session dies, also in the middle of an entity's
\* extraction, the next thing done is its recreation.
C17_NoWorkOnDeadSession ==
    [][(AtWork /\ ~SessionAnswers(driver, sessions)) =>
          SessionAnswers(driver', sessions')]_vars

\* C17, amended: process_operator probes the session once, at its start, and
\* begins navigation only on a session that answers, recreating a dead or
\* missing one first; a session that dies later during the entity is not
\* noticed: the remaining load attempts and extractor units are executed on
\* the dead session, where they fail and save nothing, and no recreation
\* happens before the next process_operator call.
C17_DeadSessionNoticedOnlyAtStart ==
    /\ [][(pc = "po_start" /\ pc' = "load") =>
             SessionAnswers(driver', sessions')]_vars
    /\ [][(AtWork /\ ~SessionAnswers(driver, sessions)) =>
            /\ driver' = driver
            /\ sessions' = sessions
            /\ files' = files
            /\ pc = "units" =>
                  /\ Len(ran') = Len(ran) + 1
                  /\ ran'[Len(ran')].outcome = "error"
            /\ LoadPass => ~LoadReturnsTrue]_vars

\* The session died during the extraction: the units after it have run on
\* the dead session and the call has returned with it.
C17_Witness ==
    /\ pc = "po_returned"
    /\ po.success
    /\ driver # 0
    /\ sessions[driver] = "dead"
    /\ \E i \in 2..(Len(ran) - 1) :
          /\ ran[i].saved = "ok"
          /\ ran[i + 1].outcome = "error"
          /\ ran[Len(ran)].outcome = "error"

\* The step is process_operator going from its start to its first page load.
BeginsNavigation == pc = "po_start" /\ pc' = "load"

\* C19: in a batch, process_operator begins navigation only after, in the
\* same call, the probe of its session succeeded or a new session was
\* created; with neither it returns without navigating; and no call is
\* started without a driver, so after an entity whose navigation failed the
\* next one begins on a session that answers.
C19_NavigationOnlyOnProbedSession ==
    /\ [][BeginsNavigation =>
            \/ /\ SessionAnswers(driver, sessions)
               /\ driver' = driver
               /\ sessions' = sessions
            \/ /\ ~SessionAnswers(driver, sessions)
               /\ Len(sessions') = Len(sessions) + 1
               /\ driver' = Len(sessions')
               /\ sessions'[driver'] = "active"]_vars
    /\ [][(pc = "po_start" /\ ~BeginsNavigation) =>
            \/ pc' = "po_start"
            \/ pc' = "po_returned" /\ driver' = 0 /\ CreationFailed(sessions')]_vars
    /\ [](pc = "po_start" => driver # 0)

\* The navigation of one operator failed on a session that had died; the
\* next operator begins its navigation on a new session.
C19_Witness ==
    /\ pc = "load"
    /\ lp.caller = "process_operator"
    /\ lp.retry_count = 0
    /\ index >= 2
    /\ Len(tally) = index - 1
    /\ NavigationFailed(index - 1)
    /\ driver >= 2
    /\ SessionAnswers(driver, sessions)

\* The session is neither closed nor replaced by the step.
SameSession ==
    /\ driver' = driver
    /\ Len(sessions') = Len(sessions)
    /\ sessions'[driver] \in {"active", "dead"}

\* The operator before the current position failed its navigation.
LastNavigationFailed == Len(tally) >= 1 /\ NavigationFailed(Len(tally))

\* C20: a navigation failure on a session that still answers the probe
\* neither closes nor recreates the session: load_operator_page's last
\* failed pass, the return to process_all_operators, its bookkeeping and
\* pause, and the start of the next operator all keep the same session, and
\* the next operator's navigation begins on it.
C20_NavigationFailureKeepsSession ==
    /\ [][(LoadPass /\ LoadReturnsFalse) =>
            (driver' = driver /\ sessions' = sessions)]_vars
    /\ [][(/\ SessionAnswers(driver, sessions)
           /\ \/ pc = "po_returned" /\ po.loaded = "failed"
              \/ pc \in {"pa_sleep", "po_start"} /\ LastNavigationFailed) =>
            /\ SameSession
            /\ pc = "po_start" => pc' \in {"load", "po_start"}]_vars

\* B's navigation failed on the first session; C is being loaded on it.
C20_Witness ==
    /\ pc = "load"
    /\ index = 3
    /\ LastNavigationFailed
    /\ tally[1].loaded = "yes"
    /\ driver = 1
    /\ sessions = <<"active">>

\* C18 as stated: once the recreation of a dead session has failed, no
\* further entity is processed and no further create_driver call is made.
C18_FatalIsTerminal ==
    \A i \in 1..Len(sessions) :
       sessions[i] = "failed" =>
          /\ i = Len(sessions)
          /\ pc \in {"po_returned", "pa_report", "exit"}

\* C18, amended: when process_operator's recreation of a dead session has
\* failed, that entity is counted failed and process_all_operators calls
\* create_driver once more; if that succeeds the batch goes on with the new
\* session, and only if it fails too the batch stops: from then on no
\* further entity is processed, no further create_driver call is made, and
\* the tally accumulated so far is what is reported.
C18_FatalAfterSecondFailure ==
    /\ [][(pc = "po_returned" /\ driver = 0) =>
            /\ Len(tally') = Len(tally) + 1
            /\ ~tally'[Len(tally')].success
            /\ Len(sessions') = Len(sessions) + 1
            /\ IF CreationFailed(sessions')
               THEN stopped' /\ pc' = "pa_report" /\ driver' = 0
               ELSE ~stopped' /\ pc' = "pa_sleep"
                    /\ SessionAnswers(driver', sessions')]_vars
    /\ [][stopped =>
            /\ stopped'
            /\ tally' = tally
            /\ successful' = successful /\ failed' = failed
            /\ index' = index
            /\ driver' = 0
            /\ Len(sessions') = Len(sessions)]_vars
    /\ [](stopped =>
            /\ pc \in {"pa_report", "exit"}
            /\ successful + failed = Len(tally))

\* The batch stopped before the end of the list and is at its report.
C18_Witness ==
    /\ stopped
    /\ pc = "pa_report"
    /\ Len(tally) < Len(operator_names)
    /\ successful >= 1
    /\ failed = 1

(***************************************************************************)
(* Ordering within one operator and along the operator list.               *)
(***************************************************************************)
\* The most recent load_operator_page call for the operator being processed
\* returned True: the load of process_operator did, and so did the reload
\* operator_info makes (its entry of ran has outcome "none" when it failed).
LastNavigationReady ==
    /\ po.loaded = "yes"
    /\ Len(ran) >= 1 => ran[1].outcome # "none"

\* C21: while one operator is processed, navigation comes before extraction
\* and extraction before merge: an extractor runs only when the most recent
\* navigation for the operator returned ready, and whatever is written to the
\* record is data a unit has produced before the write.
C21_NavigationBeforeExtractionBeforeMerge ==
    /\ pc \in {"op_info_save", "units"} => po.loaded = "yes"
    /\ \A i \in 1..Len(ran) :
          /\ ran[i].unit \in Extractors => LastNavigationReady
          /\ ran[i].saved # "no" => ran[i].outcome = "data"

\* process_operator is at work for the operator of the current pass.
InOperator == pc \in {"po_start", "load", "op_info_save", "units", "po_returned"}

\* C22: process_all_operators takes the operators in the order of the list
\* it was given, and every step of one operator (navigation, extraction,
\* merge) is over before the first step of the next: the operators counted so
\* far are the first ones of the list in list order, the one at work is the
\* next of the list, a record changes only for the operator at work, and the
\* next pass starts only when the current operator has been counted.
C22_ListOrderOneAtATime ==
    /\ [](/\ \A i \in 1..Len(tally) : tally[i].name = operator_names[i]
          /\ InOperator =>
                /\ index \in 1..Len(operator_names)
                /\ po.operator_name = operator_names[index]
                /\ Len(tally) = index - 1
          /\ pc \in {"pa_sleep", "pa_report", "exit"} /\ index >= 1 => Len(tally) = index)
    /\ [][/\ \A e \in Operators :
               files'[e] # files[e] =>
                  \/ pc = "pa_start"
                  \/ /\ pc \in {"po_start", "op_info_save", "units"}
                     /\ e = operator_names[index]
                     /\ Len(tally) = index - 1
          /\ index' # index => /\ index' = index + 1
                               /\ Len(tally) = index
                               /\ pc' = "po_start"]_vars

\* The whole list has been processed, with a failed operator in the middle.
C22_Witness ==
    /\ pc = "pa_report"
    /\ ~stopped
    /\ Len(tally) = Len(operator_names)
    /\ \E i \in 2..Len(tally) : ~tally[i - 1].success /\ tally[i].success
    /\ \A i \in 1..Len(tally) : tally[i].success => "talents" \in merged[operator_names[i]]

\* C23: in process_all_operators a pacing sleep lies between the end of one
\* operator and the start of the next on every path that goes on with the
\* batch, whether the operator succeeded, failed, or left no session so that
\* a new one was created: the operator of pass i starts after i - 1 sleeps,
\* and each move to the next operator is made by the step that sleeps.
C23_PauseBetweenOperators ==
    /\ [](InOperator => slept = index - 1)
    /\ [](slept <= Len(tally))
    /\ [][index' # index => (pc = "pa_start" \/ slept' = slept + 1)]_vars

\* The batch went through the whole list with a pause after an operator that
\* left no session (a new one was created), after one whose page did not
\* load, and after one that succeeded.
C23_Witness ==
    /\ pc = "pa_report"
    /\ ~stopped
    /\ slept = Len(operator_names)
    /\ Len(sessions) >= 3
    /\ \E i, j, k \in 1..Len(tally) :
          /\ tally[i].loaded = "no"
          /\ tally[j].loaded = "failed"
          /\ tally[k].success

\* C30: process_operator returns success = True exactly when a session was
\* available (the old one alive, or a new one created) and its first page
\* load for the operator returned True; what the extractors and the saves
\* did afterwards does not enter the flag.
C30_SuccessIsSessionAndFirstLoad ==
    pc = "po_returned" =>
       /\ po.success <=> (driver # 0 /\ po.loaded = "yes")
       /\ driver = 0 => (po.loaded = "no" /\ ran = <<>>)
       /\ po.loaded = "failed" => ran = <<>>
       /\ po.loaded = "yes" => Len(ran) = Len(PipelineOrder)

\* Success was returned although an extractor met an error and no save of
\* the call went through.
C30_Witness ==
    /\ pc = "po_returned"
    /\ po.success
    /\ Len(ran) = Len(PipelineOrder)
    /\ \E i \in 1..Len(ran) : ran[i].outcome = "error"
    /\ \E i \in 1..Len(ran) : ran[i].saved = "failed"
    /\ \A i \in 1..Len(ran) : ran[i].saved # "ok"

\* The operators of the list the loop has not reached.
Remaining == {operator_names[j] : j \in (Len(tally) + 1)..Len(operator_names)}

LiveSessions == {i \in 1..Len(sessions) : sessions[i] = "active"}

\* C29: the program owns at most one live session at any time; a new session
\* is created only when the driver variable held none or after quit was
\* tried on the session it held, which then is closed or dead; and a session
\* that was replaced is never used again: the driver variable holds the
\* newest session, the only one a load or an extractor is run on.
C29_OneLiveSession ==
    /\ [](Cardinality(LiveSessions) <= 1)
    /\ [](driver # 0 => driver = Len(sessions))
    /\ [](LiveSessions \subseteq {driver})
    /\ [][Len(sessions') > Len(sessions) =>
             \/ driver = 0
             \/ sessions'[driver] \in {"closed", "dead"}]_vars
    /\ [][driver' # driver => (driver' = 0 \/ driver' = Len(sessions) + 1)]_vars

\* An extractor runs on the third session: the first died and was closed,
\* the second never came up.
C29_Witness ==
    /\ pc = "units"
    /\ Len(sessions) = 3
    /\ driver = 3
    /\ sessions[1] = "closed"
    /\ sessions[2] = "failed"
    /\ sessions[3] = "active"

(***************************************************************************)
(* The batch run twice (SpecRerun).                                        *)
(***************************************************************************)
\* The second run of main has exited.
SecondRunOver == pc = "exit" /\ kept # <<>>

\* C24: against a stable site, the batch run over the operator list with the
\* store cleared first, then run again the same way, leaves the records the
\* first run left: the same files, each with the same fields and values.
C24_RerunReproducesRecords ==
    SecondRunOver => files = kept[1]

\* Two runs are over; the store holds a full record, a record of a sparse
\* page, and no file for the operator whose page is missing.
C24_Witness ==
    /\ SecondRunOver
    /\ Len(sessions) = 2
    /\ files = kept[1]
    /\ \E e \in Operators : files[e] = NoFile /\ doc[e] = NoPage
    /\ \E e \in Operators :
          /\ files[e].kind = "json"
          /\ DOMAIN files[e].data = Fields
          /\ \A f \in Fields : files[e].data[f] = V(e, "doc")

(***************************************************************************)
(* Termination of the retry loops (SpecLoops).                             *)
(***************************************************************************)
\* The function that was called has returned (or raised).
LoopsOver ==
    /\ mode \in {"safe_find_element", "safe_find_elements"} =>
          sf_pc \in {"returned", "raised"}
    /\ mode = "list" => ga.pc = "returned"
    /\ mode = "batch" => pc = "exit"

\* C28: every retry loop is bounded: safe_find_element, safe_find_elements,
\* load_operator_page and get_all_operators make at most MAX_RETRY_ATTEMPTS
\* attempts whatever fails, and each of them returns; every call of
\* process_operator returns, and process_all_operators comes to its end.
C28_RetryLoopsBounded ==
    /\ [](Len(sf_probes) <= MAX_RETRY_ATTEMPTS /\ sf_retry_count <= MAX_RETRY_ATTEMPTS)
    /\ [](lp.gets + 1 <= MAX_RETRY_ATTEMPTS /\ lp.retry_count < MAX_RETRY_ATTEMPTS)
    /\ [](Len(ga.passes) <= MAX_RETRY_ATTEMPTS /\ ga.retry_count <= MAX_RETRY_ATTEMPTS)
    /\ (pc = "load") ~> (pc # "load")
    /\ (pc = "po_start") ~> (pc = "po_returned")
    /\ <>LoopsOver

\* get_all_operators has returned the empty list after MAX_RETRY_ATTEMPTS
\* passes, one without names and two ended by an exception.
C28_Witness ==
    /\ mode = "list"
    /\ ga.pc = "returned"
    /\ ga.operator_names = <<>>
    /\ ga.passes = <<"TimeoutException", "no_names", "WebDriverException">>

(***************************************************************************)
(* What a run without cleanup does to a record that exists.                *)
(***************************************************************************)
\* C31: with clean_before_run=False, processing an operator that has a
\* record removes no field of it and replaces no value of it by an empty
\* one: when process_operator has returned, every field the record had holds
\* the value it had or data extracted in this run.
C31_RerunKeepsPersistedValues ==
    (/\ Returned
     /\ ~po.clean_before_run
     /\ snap[po.operator_name].kind = "json") =>
       LET old == snap[po.operator_name].data
           rec == files[po.operator_name]
       IN  /\ rec.kind = "json"
           /\ \A f \in DOMAIN old :
                 /\ f \in DOMAIN rec.data
                 /\ rec.data[f] \in {old[f], V(po.operator_name, "doc")}

(***************************************************************************)
(* safe_find_element and safe_find_elements side by side (SpecLocators).   *)
(***************************************************************************)
LocatorsInit == LocateInit \/ LocateAllInit

LocatorsNext == LoopsFind \/ LoopsFindAll \/ FindSleep

SpecLocators == LocatorsInit /\ [][LocatorsNext]_vars

\* C33: in safe_find_element and safe_find_elements a probe failure that is
\* not not-found, timed-out or stale (the error of a dead session, say) is
\* not retried: it is the last probe of the call and leaves it as an
\* exception, with no sleep after it and no None or empty list returned; and
\* only such a failure leaves the call that way.
C33_OtherErrorsPropagateAtOnce ==
    /\ \A i \in 1..Len(sf_probes) :
          sf_probes[i] = "WebDriverException" =>
             /\ i = Len(sf_probes)
             /\ sf_pc = "raised"
             /\ sf_sleeps = i - 1
             /\ sf_retry_count = i - 1
             /\ ~sf_printed
    /\ sf_pc = "raised" =>
          /\ Len(sf_probes) >= 1
          /\ sf_probes[Len(sf_probes)] = "WebDriverException"
    /\ sf_pc = "returned" =>
          \A i \in 1..Len(sf_probes) : sf_probes[i] # "WebDriverException"

\* safe_find_elements was left by an exception at its second probe, the
\* first having timed out.
C33_Witness ==
    /\ mode = "safe_find_elements"
    /\ sf_pc = "raised"
    /\ sf_probes = <<"TimeoutException", "WebDriverException">>
    /\ sf_sleeps = 1

(***************************************************************************)
(* Helper functions of the extractors, each called on its own              *)
(* (SpecExtract): the argument is drawn at the call, the step applies the  *)
(* function.                                                               *)
(***************************************************************************)
\* Rows of the potential table after its header, at most.
MaxRows == 3

\* Materials in the mastery rows of the upgrade table, at most.
MaxMaterials == 19

\* d with key k set to v (d[k] = v of a Python dict).
Put(d, k, v) == [x \in DOMAIN d \cup {k} |-> IF x = k THEN v ELSE d[x]]

\* d without the keys of K.
Without(d, K) == [x \in DOMAIN d \ K |-> d[x]]

\* A row of the potential table: one with an effect cell, an "OR" row, or
\* one where td[2] is not found.
RowKinds == {"effect", "or", "no_cell"}

RowLists == UNION {[1..n -> RowKinds] : n \in 0..MaxRows}

\* potential_data = {"Pot 1": "Base form"}; the key "Pot k" is k.
BaseForm == [text |-> "Base form", row |-> 0]

InitialPotential == [k \in {1} |-> BaseForm]

\* The for loop over rows[1:], from row i on: an effect row stores its text
\* under "Pot {pot_counter}" and adds 1 to pot_counter.
RECURSIVE PotentialLoop(_, _, _, _)
PotentialLoop(rows, i, potential_data, pot_counter) ==
    IF i > Len(rows) THEN potential_data
    ELSE IF rows[i] = "effect"
    THEN PotentialLoop(rows, i + 1,
                       Put(potential_data, pot_counter, [text |-> "effect", row |-> i]),
                       pot_counter + 1)
    ELSE PotentialLoop(rows, i + 1, potential_data, pot_counter)

\* extract_potential_with_selenium on a page whose potential table is found
\* or not and has these rows: the mapping returned, and whether it was saved
\* (if len(potential_data) > 1).  pot_counter starts at 1.
extract_potential_with_selenium(table, rows) ==
    LET potential_data == IF table THEN PotentialLoop(rows, 1, InitialPotential, 1)
                          ELSE InitialPotential
    IN  [potential_data |-> potential_data,
         saved |-> table /\ Cardinality(DOMAIN potential_data) > 1]

\* skills and mastery_levels of extract_mastery_upgrades.
skills == <<"Skill1", "Skill2", "Skill3">>

mastery_levels == <<"M1", "M2", "M3">>

\* 3 skills x 3 masteries
SlotCount == 9

\* The skill and the mastery of the j-th pass of the nested for loops.
SlotSkill(j) == skills[((j - 1) \div Len(mastery_levels)) + 1]

SlotMastery(j) == mastery_levels[((j - 1) % Len(mastery_levels)) + 1]

\* mastery_costs as extract_skill_upgrade_costs creates it; the dictionary
\* under "masteries" stands for the skill.
InitialMastery ==
    [sk \in {"Skill1", "Skill2", "Skill3"} |-> [m \in {"M1", "M2", "M3"} |-> <<>>]]

\* The lists the mastery materials are drawn from: 1, 2, ..., n in order.
MaterialLists == {[i \in 1..n |-> i] : n \in 0..MaxMaterials}

Min(a, b) == IF a < b THEN a ELSE b

\* materials_per_mastery = len(all_mastery_materials) // 9
MaterialsPerMasteryRoundedUp(n) == (n + SlotCount - 1) \div SlotCount

MaterialsPerMastery(n) == n \div SlotCount

\* The nested for loops from pass j on: the slice
\* all_mastery_materials[material_index:end_index] goes to the slot.
RECURSIVE Distribute(_, _, _, _, _)
Distribute(all, per, j, material_index, mastery_costs) ==
    IF j > SlotCount THEN mastery_costs
    ELSE LET end_index == Min(material_index + per, Len(all))
             slice == SubSeq(all, material_index + 1, end_index)
         IN  Distribute(all, per, j + 1, end_index,
                        [mastery_costs EXCEPT ![SlotSkill(j)][SlotMastery(j)] = slice])

\* extract_mastery_upgrades with all_mastery_materials = all (empty also
\* when no mastery row was found).
extract_mastery_upgrades(all, mastery_costs) ==
    IF MaterialsPerMastery(Len(all)) > 0
    THEN Distribute(all, MaterialsPerMastery(Len(all)), 1, 0, mastery_costs)
    ELSE mastery_costs

\* The levels extract_regular_skill_upgrades can find materials for (the
\* first of range(2, 8)).
RegularLevels == {2, 3}

\* Python's truth value of a dictionary or list: it is not empty.
DictTruthy(d) == DOMAIN d # {}

\* extract_skill_upgrade_costs on a page whose upgrade table is found or
\* not, yields materials for the levels of regular, and has the mastery
\* materials all: whether save_operator_data was called, and with what.
extract_skill_upgrade_costs(table, regular, all) ==
    LET upgrade_costs == [l \in regular |-> "materials"]
        mastery_costs == extract_mastery_upgrades(all, InitialMastery)
        condition == \/ DictTruthy(upgrade_costs)
                     \/ \E sk \in DOMAIN mastery_costs : DictTruthy(mastery_costs[sk])
        clean_mastery_costs ==
            [sk \in {k \in DOMAIN mastery_costs :
                       \E m \in DOMAIN mastery_costs[k] : mastery_costs[k][m] # <<>>}
               |-> mastery_costs[sk]]
    IN  IF table /\ condition
        THEN [saved |-> TRUE, skill_upgrade_costs |-> upgrade_costs,
              mastery_costs |-> clean_mastery_costs]
        ELSE [saved |-> FALSE, skill_upgrade_costs |-> upgrade_costs,
              mastery_costs |-> mastery_costs]

\* voice_keys of organize_voice_actors, and key.replace("va_", "").
voice_keys == {"va_jp", "va_cn", "va_en", "va_kr"}

ShortKey(key) ==
    IF key = "va_jp" THEN "jp"
    ELSE IF key = "va_cn" THEN "cn"
    ELSE IF key = "va_en" THEN "en"
    ELSE "kr"

\* The info_data dictionaries organize_voice_actors is called with: any of
\* the voice keys, with or without a character_voices section read from the
\* sidebar, with or without a title.
InfoDicts ==
    {[k \in K |-> IF k = "character_voices" THEN [x \in {"notes"} |-> "section"]
                  ELSE k]
       : K \in SUBSET (voice_keys \cup {"character_voices", "title"})}

\* organize_voice_actors(info_data): info_data as the call leaves it.
organize_voice_actors(info_data) ==
    LET found == voice_keys \cap DOMAIN info_data
        voice_actors ==
            [s \in {ShortKey(k) : k \in found} |->
               info_data[CHOOSE k \in found : ShortKey(k) = s]]
        popped == Without(info_data, voice_keys)
    IN  IF "character_voices" \notin DOMAIN popped /\ DictTruthy(voice_actors)
        THEN Put(popped, "character_voices", voice_actors)
        ELSE popped

\* A helper function is called with an argument drawn from its inputs.
ExtractInit ==
    /\ LocIdle
    /\ StoreIdle
    /\ RunIdle
    /\ mode = "extract"
    /\ ga = GaIdle
    /\ mg = <<>>
    /\ \/ \E table \in BOOLEAN : \E rows \in RowLists :
            fx = [fn |-> "extract_potential_with_selenium", pc |-> "called",
                  in |-> [table |-> table, rows |-> rows], out |-> <<>>]
       \/ \E all \in MaterialLists :
            fx = [fn |-> "extract_mastery_upgrades", pc |-> "called",
                  in |-> [all |-> all], out |-> <<>>]
       \/ \E table \in BOOLEAN : \E regular \in SUBSET RegularLevels :
          \E all \in MaterialLists :
            fx = [fn |-> "extract_skill_upgrade_costs", pc |-> "called",
                  in |-> [table |-> table, regular |-> regular, all |-> all],
                  out |-> <<>>]
       \/ \E info_data \in InfoDicts :
            fx = [fn |-> "organize_voice_actors", pc |-> "called",
                  in |-> [info_data |-> info_data], out |-> <<>>]

CallPotential ==
    /\ fx.pc = "called"
    /\ fx.fn = "extract_potential_with_selenium"
    /\ fx' = [fx EXCEPT !.pc = "returned",
                        !.out = extract_potential_with_selenium(fx.in.table, fx.in.rows)]
    /\ UNCHANGED <<storeVars, locVars, calls, mainVars, mg>>

CallMastery ==
    /\ fx.pc = "called"
    /\ fx.fn = "extract_mastery_upgrades"
    /\ fx' = [fx EXCEPT !.pc = "returned",
                        !.out = extract_mastery_upgrades(fx.in.all, InitialMastery)]
    /\ UNCHANGED <<storeVars, locVars, calls, mainVars, mg>>

CallCosts ==
    /\ fx.pc = "called"
    /\ fx.fn = "extract_skill_upgrade_costs"
    /\ fx' = [fx EXCEPT !.pc = "returned",
                        !.out = extract_skill_upgrade_costs(fx.in.table, fx.in.regular,
                                                            fx.in.all)]
    /\ UNCHANGED <<storeVars, locVars, calls, mainVars, mg>>

CallVoice ==
    /\ fx.pc = "called"
    /\ fx.fn = "organize_voice_actors"
    /\ fx' = [fx EXCEPT !.pc = "returned",
                        !.out = organize_voice_actors(fx.in.info_data)]
    /\ UNCHANGED <<storeVars, locVars, calls, mainVars, mg>>

ExtractNext == CallPotential \/ CallMastery \/ CallCosts \/ CallVoice

SpecExtract == ExtractInit /\ [][ExtractNext]_vars

\* The call of helper function fn has returned.
HasReturned(fn) == fx.fn = fn /\ fx.pc = "returned"

\* The number of rows of the potential table that have an effect cell.
EffectRows(rows) == Cardinality({i \in 1..Len(rows) : rows[i] = "effect"})

\* C34: in extract_potential_with_selenium the extracted effects never
\* overwrite the base-form entry: after n >= 1 effect rows the mapping has
\* n + 1 entries, 'Pot 1': 'Base form' and the n effects, and the
\* 'potential' field is saved whenever n >= 1.
C34_BaseFormKept ==
    (/\ HasReturned("extract_potential_with_selenium")
     /\ fx.in.table
     /\ EffectRows(fx.in.rows) >= 1) =>
       /\ Cardinality(DOMAIN fx.out.potential_data) = EffectRows(fx.in.rows) + 1
       /\ fx.out.potential_data[1] = BaseForm
       /\ fx.out.saved

\* Some list of the mastery costs handed to the save holds a material.
SomeMasteryMaterial(mastery_costs) ==
    \E sk \in DOMAIN mastery_costs : \E m \in DOMAIN mastery_costs[sk] :
       mastery_costs[sk][m] # <<>>

\* C35: extract_skill_upgrade_costs writes skill_upgrade_costs and
\* mastery_costs only when a regular upgrade cost or a non-empty mastery
\* list was extracted: when the upgrade table yields no material nothing is
\* written; and the mastery_costs written holds no skill whose three lists
\* are all empty.
C35_CostsSavedOnlyWithMaterial ==
    (HasReturned("extract_skill_upgrade_costs") /\ fx.out.saved) =>
       /\ fx.in.regular # {} \/ SomeMasteryMaterial(fx.out.mastery_costs)
       /\ \A sk \in DOMAIN fx.out.mastery_costs :
             \E m \in DOMAIN fx.out.mastery_costs[sk] :
                fx.out.mastery_costs[sk][m] # <<>>

\* The lists of the nine slots one after the other, from slot j on.
RECURSIVE SlotsFrom(_, _)
SlotsFrom(mastery_costs, j) ==
    IF j > 9 THEN <<>>
    ELSE mastery_costs[SlotSkill(j)][SlotMastery(j)] \o SlotsFrom(mastery_costs, j + 1)

\* C39: extract_mastery_upgrades, given the list L of all mastery materials
\* and k = floor(len(L) / 9), gives the nine slots (Skill1..Skill3 by
\* M1..M3, in that order) consecutive chunks of k materials each in the
\* order of L, the nine together being the first 9 * k elements of L; with
\* len(L) < 9 no slot is assigned, and the last len(L) mod 9 materials go to
\* no slot.
C39_MasteryChunks ==
    HasReturned("extract_mastery_upgrades") =>
       LET L == fx.in.all
           k == Len(L) \div 9
       IN  /\ k >= 1 =>
                /\ fx.out["Skill1"]["M1"] = SubSeq(L, 1, k)
                /\ fx.out["Skill1"]["M2"] = SubSeq(L, k + 1, 2 * k)
                /\ fx.out["Skill1"]["M3"] = SubSeq(L, 2 * k + 1, 3 * k)
                /\ fx.out["Skill2"]["M1"] = SubSeq(L, 3 * k + 1, 4 * k)
                /\ fx.out["Skill2"]["M2"] = SubSeq(L, 4 * k + 1, 5 * k)
                /\ fx.out["Skill2"]["M3"] = SubSeq(L, 5 * k + 1, 6 * k)
                /\ fx.out["Skill3"]["M1"] = SubSeq(L, 6 * k + 1, 7 * k)
                /\ fx.out["Skill3"]["M2"] = SubSeq(L, 7 * k + 1, 8 * k)
                /\ fx.out["Skill3"]["M3"] = SubSeq(L, 8 * k + 1, 9 * k)
           /\ SlotsFrom(fx.out, 1) = SubSeq(L, 1, 9 * k)
           /\ Len(L) < 9 => fx.out = InitialMastery
           /\ \A i \in (9 * k + 1)..Len(L) :
                 \A sk \in DOMAIN fx.out : \A m \in DOMAIN fx.out[sk] :
                    \A x \in 1..Len(fx.out[sk][m]) : fx.out[sk][m][x] # L[i]

\* Nineteen materials were distributed two to a slot, the last one left out.
C39_Witness ==
    /\ HasReturned("extract_mastery_upgrades")
    /\ Len(fx.in.all) = 19
    /\ fx.out["Skill1"]["M1"] = <<1, 2>>
    /\ fx.out["Skill2"]["M2"] = <<9, 10>>
    /\ fx.out["Skill3"]["M3"] = <<17, 18>>

\* C40: organize_voice_actors loses no voice-actor data: after the call no
\* va_jp / va_cn / va_en / va_kr key is left at the top level of info_data,
\* and every value that was under one of them is under
\* info_data['character_voices'] (keyed jp / cn / en / kr), whether or not a
\* character_voices entry existed before.
C40_VoiceActorsKept ==
    HasReturned("organize_voice_actors") =>
       /\ voice_keys \cap DOMAIN fx.out = {}
       /\ \A key \in voice_keys \cap DOMAIN fx.in.info_data :
             /\ "character_voices" \in DOMAIN fx.out
             /\ ShortKey(key) \in DOMAIN fx.out["character_voices"]
             /\ fx.out["character_voices"][ShortKey(key)] = fx.in.info_data[key]

(***************************************************************************)
(* SpecScripts: the other scripts of the repository (operator-files.py,    *)
(* dialogue.py, trivia.py, operator-overview.py), each keeping one record  *)
(* file per operator under files/<operator>.  A function is called once on *)
(* a directory tree left by earlier runs; fx.in holds the tree and the     *)
(* arguments, fx.out what the call returned and the tree it left.          *)
(***************************************************************************)
\* The list get_operator_list returns.
operators == <<"A", "B">>

OperatorNames == {operators[i] : i \in 1..Len(operators)}

\* The record file each script keeps in files/<operator>.
RecordFiles == {"operator_files.json", "dialogue.json", "Trivia.json",
                "Overview.json"}

\* files/<operator> does not exist.
NoDirectory == [exists |-> FALSE, files |-> [f \in RecordFiles |-> "none"]]

\* What files/<operator> can be before a call: missing, or holding any of
\* the record files as earlier runs wrote them.
Directories ==
    {NoDirectory} \cup
    {[exists |-> TRUE, files |-> fs] : fs \in [RecordFiles -> {"none", "old"}]}

Trees == [OperatorNames -> Directories]

\* os.makedirs(dir_path, exist_ok=True) / Path.mkdir(parents=True, exist_ok=True)
makedirs(tree, operator_name) == [tree EXCEPT ![operator_name].exists = TRUE]

\* shutil.rmtree(dir_path)
rmtree(tree, operator_name) == [tree EXCEPT ![operator_name] = NoDirectory]

\* with open(file, 'w') as f: json.dump(data, f): the file holds content.
Dump(tree, operator_name, file, content) ==
    [tree EXCEPT ![operator_name].files[file] = content]

\* os.path.exists(f"files/{operator_name}/{file}")
path_exists(tree, operator_name, file) ==
    tree[operator_name].exists /\ tree[operator_name].files[file] # "none"

\* operator-files.py save_to_json (its writes succeed).
operator_files_save_to_json(tree, operator_name, overwrite) ==
    LET cleared == IF overwrite /\ tree[operator_name].exists
                   THEN rmtree(tree, operator_name)
                   ELSE tree
    IN  Dump(makedirs(cleared, operator_name), operator_name,
             "operator_files.json", "new")

\* dialogue.py save_operator_dialogue (its writes succeed).
save_operator_dialogue(tree, operator_name) ==
    Dump(makedirs(tree, operator_name), operator_name, "dialogue.json", "new")

\* trivia.py save_to_json (its writes succeed).
trivia_save_to_json(tree, operator_name) ==
    Dump(makedirs(tree, operator_name), operator_name, "Trivia.json", "new")

\* operator-overview.py save_to_json (its writes succeed).
overview_save_to_json(tree, operator_name) ==
    Dump(makedirs(tree, operator_name), operator_name, "Overview.json", "new")

\* What requests.get and raise_for_status can end in: a page with the data
\* looked for, a page without it, an HTTP error status, or an exception of
\* requests.get itself.
FetchOutcomes == {"page", "bare_page", "http_error", "connection_error", "timeout"}

\* What the file system does to dialogue.py process_operator: nothing
\* wrong, os.makedirs raises (it has exist_ok=True, so only when it has a
\* directory to create), open raises, or json.dump raises after open has
\* truncated the file.
DialogueIo == {"ok", "makedirs_error", "open_error", "dump_error"}

\* get_operator_dialogue: the 'dialogue' entry of what it returns; every
\* exception is caught and gives {"dialogue": {}}.
get_operator_dialogue(fetch) ==
    IF fetch = "page" THEN [greeting |-> "text"] ELSE <<>>

NeverSkips(overwrite, exists) == FALSE

\* if not overwrite and os.path.exists(output_file)
SkipsExisting(overwrite, exists) == ~overwrite /\ exists

\* The body of the try block of dialogue.py process_operator: what it
\* returns (ret), whether it ended by an exception, whether the wiki was
\* asked, and the tree it leaves.
DialogueTry(tree, operator_name, overwrite, fetch, io) ==
    LET made == makedirs(tree, operator_name)
        dialogue == get_operator_dialogue(fetch)
        End(ret, raised, fetched, t) ==
            [ret |-> ret, raised |-> raised, fetched |-> fetched, tree |-> t]
    IN  IF io = "makedirs_error" /\ ~tree[operator_name].exists
        THEN End(FALSE, TRUE, FALSE, tree)
        ELSE IF SkipsExisting(overwrite,
                              path_exists(made, operator_name, "dialogue.json"))
        THEN End(TRUE, FALSE, FALSE, made)
        ELSE IF ~DictTruthy(dialogue)
        THEN End(FALSE, FALSE, TRUE, made)
        ELSE IF io = "open_error"
        THEN End(FALSE, TRUE, TRUE, made)
        ELSE IF io = "dump_error"
        THEN End(FALSE, TRUE, TRUE,
                 Dump(made, operator_name, "dialogue.json", "partial"))
        ELSE End(TRUE, FALSE, TRUE,
                 Dump(made, operator_name, "dialogue.json", "new"))

\* dialogue.py process_operator: except Exception turns an exception of the
\* body into the return value False.
dialogue_process_operator(tree, operator_name, overwrite, fetch, io) ==
    LET body == DialogueTry(tree, operator_name, overwrite, fetch, io)
    IN  IF body.raised
        THEN [body EXCEPT !.ret = FALSE, !.raised = FALSE]
        ELSE body

\* scrape_operator_trivia / scrape_operator_overview: only
\* requests.exceptions.HTTPError is caught (None is returned); the result
\* built from a page is a dictionary with three keys, true in an if.
scrape_operator(fetch) ==
    CASE fetch \in {"page", "bare_page"} -> "data"
      [] fetch = "http_error" -> "None"
      [] OTHER -> "raises"

\* The state of the loop of process_all_operators before any operator.
LoopStart(tree) ==
    [successful |-> 0, failed |-> <<>>, visited |-> <<>>, returned |-> TRUE,
     tree |-> tree]

\* The for loop of process_all_operators of trivia.py and of
\* operator-overview.py from position i on: an exception of
\* scrape_operator_* leaves the loop and the function.
RECURSIVE BatchLoop(_, _, _, _)
BatchLoop(file, outcomes, i, st) ==
    IF i > Len(operators) THEN st
    ELSE LET operator_name == operators[i]
             operator_data == scrape_operator(outcomes[operator_name])
             seen == [st EXCEPT !.visited = Append(@, operator_name)]
         IN  CASE operator_data = "raises" ->
                    [seen EXCEPT !.returned = FALSE]
               [] operator_data = "data" ->
                    BatchLoop(file, outcomes, i + 1,
                        [seen EXCEPT
                            !.tree = Dump(makedirs(@, operator_name),
                                          operator_name, file, "new"),
                            !.successful = @ + 1])
               [] OTHER ->
                    BatchLoop(file, outcomes, i + 1,
                        [seen EXCEPT !.failed = Append(@, operator_name)])

\* trivia.py process_all_operators
trivia_process_all_operators(tree, outcomes) ==
    BatchLoop("Trivia.json", outcomes, 1, LoopStart(tree))

\* operator-overview.py process_all_operators
overview_process_all_operators(tree, outcomes) ==
    BatchLoop("Overview.json", outcomes, 1, LoopStart(tree))

\* The four functions that save a record file, and the file each writes.
SaveFunctions == {"operator-files.save_to_json", "dialogue.save_operator_dialogue",
                  "trivia.save_to_json", "operator-overview.save_to_json"}

OwnFile(fn) ==
    CASE fn = "operator-files.save_to_json" -> "operator_files.json"
      [] fn = "dialogue.save_operator_dialogue" -> "dialogue.json"
      [] fn = "trivia.save_to_json" -> "Trivia.json"
      [] fn = "operator-overview.save_to_json" -> "Overview.json"

BatchFunctions == {"trivia.process_all_operators",
                   "operator-overview.process_all_operators"}

ScriptsInit ==
    /\ LocIdle
    /\ StoreIdle
    /\ RunIdle
    /\ mode = "scripts"
    /\ ga = GaIdle
    /\ mg = <<>>
    /\ \E tree \in Trees :
        \/ \E fn \in SaveFunctions : \E operator_name \in OperatorNames :
           \E overwrite \in BOOLEAN :
              /\ fn # "operator-files.save_to_json" => overwrite = FALSE
              /\ fx = [fn |-> fn, pc |-> "called",
                       in |-> [tree |-> tree, operator_name |-> operator_name,
                               overwrite |-> overwrite],
                       out |-> <<>>]
        \/ \E operator_name \in OperatorNames : \E overwrite \in BOOLEAN :
           \E fetch \in FetchOutcomes : \E io \in DialogueIo :
              fx = [fn |-> "dialogue.process_operator", pc |-> "called",
                    in |-> [tree |-> tree, operator_name |-> operator_name,
                            overwrite |-> overwrite, fetch |-> fetch, io |-> io],
                    out |-> <<>>]
        \/ \E fn \in BatchFunctions : \E outcomes \in [OperatorNames -> FetchOutcomes] :
              fx = [fn |-> fn, pc |-> "called",
                    in |-> [tree |-> tree, outcomes |-> outcomes],
                    out |-> <<>>]

\* The call held in fx returns out.
Returns(out) ==
    /\ mode = "scripts"
    /\ fx.pc = "called"
    /\ fx' = [fx EXCEPT !.pc = "returned", !.out = out]
    /\ UNCHANGED <<storeVars, locVars, calls, mainVars, mg>>

CallFilesSave ==
    /\ fx.fn = "operator-files.save_to_json"
    /\ Returns([tree |-> operator_files_save_to_json(fx.in.tree, fx.in.operator_name,
                                                  fx.in.overwrite)])

CallDialogueSave ==
    /\ fx.fn = "dialogue.save_operator_dialogue"
    /\ Returns([tree |-> save_operator_dialogue(fx.in.tree, fx.in.operator_name)])

CallTriviaSave ==
    /\ fx.fn = "trivia.save_to_json"
    /\ Returns([tree |-> trivia_save_to_json(fx.in.tree, fx.in.operator_name)])

CallOverviewSave ==
    /\ fx.fn = "operator-overview.save_to_json"
    /\ Returns([tree |-> overview_save_to_json(fx.in.tree, fx.in.operator_name)])

CallDialogueProcess ==
    /\ fx.fn = "dialogue.process_operator"
    /\ Returns(dialogue_process_operator(fx.in.tree, fx.in.operator_name,
                                      fx.in.overwrite, fx.in.fetch, fx.in.io))

CallTriviaBatch ==
    /\ fx.fn = "trivia.process_all_operators"
    /\ Returns(trivia_process_all_operators(fx.in.tree, fx.in.outcomes))

CallOverviewBatch ==
    /\ fx.fn = "operator-overview.process_all_operators"
    /\ Returns(overview_process_all_operators(fx.in.tree, fx.in.outcomes))

ScriptsNext ==
    \/ CallFilesSave
    \/ CallDialogueSave
    \/ CallTriviaSave
    \/ CallOverviewSave
    \/ CallDialogueProcess
    \/ CallTriviaBatch
    \/ CallOverviewBatch

SpecScripts == ScriptsInit /\ [][ScriptsNext]_vars

\* C36: the record files under files/<operator> are independent: a call of
\* one of the four save functions for operator E, save_to_json of
\* operator-files.py with overwrite=True included, leaves every other record
\* file of E and every file of every other operator as it was.
C36_RecordFilesIndependent ==
    (fx.fn \in SaveFunctions /\ fx.pc = "returned") =>
        \A e \in OperatorNames : \A f \in RecordFiles :
            (e # fx.in.operator_name \/ f # OwnFile(fx.fn)) =>
                fx.out.tree[e].files[f] = fx.in.tree[e].files[f]

\* The dialogue.json of the operator of the dialogue.process_operator call
\* held in fx, in tree t.
DialogueFile(t) == t[fx.in.operator_name].files["dialogue.json"]

\* C37: dialogue.py process_operator modifies an existing dialogue.json only
\* when overwrite=True and a non-empty dialogue was fetched; with
\* overwrite=False and an existing file it returns True without fetching or
\* writing; when the fetch fails or yields no dialogue it returns False and
\* leaves an existing file unchanged; it never raises.
C37_DialogueOverwrite ==
    HasReturned("dialogue.process_operator") =>
        LET existed == path_exists(fx.in.tree, fx.in.operator_name, "dialogue.json")
            same == DialogueFile(fx.out.tree) = DialogueFile(fx.in.tree)
        IN  /\ (existed /\ ~same) => (fx.in.overwrite /\ fx.in.fetch = "page")
            /\ (existed /\ ~fx.in.overwrite) =>
                   (fx.out.ret /\ ~fx.out.fetched /\ same)
            /\ (fx.out.fetched /\ fx.in.fetch # "page") => (~fx.out.ret /\ same)
            /\ ~fx.out.raised

\* An existing dialogue.json was replaced by a call with overwrite=True that
\* fetched a dialogue.
C37_Witness ==
    /\ HasReturned("dialogue.process_operator")
    /\ DialogueFile(fx.in.tree) = "old"
    /\ fx.in.overwrite
    /\ fx.out.ret
    /\ DialogueFile(fx.out.tree) = "new"

\* The operators whose page could not be fetched in the batch call held in fx.
FetchFailed ==
    SelectSeq(operators, LAMBDA o : fx.in.outcomes[o] \notin {"page", "bare_page"})

\* C38: in process_all_operators of trivia.py and of operator-overview.py a
\* failure to fetch one operator's page, of any kind (HTTP error status,
\* connection error, timeout), marks only that operator as failed and the
\* loop goes on with the next operator; when the function returns,
\* successful + len(failed) is the number of operators and a file was saved
\* exactly for the operators counted successful.
C38_FetchFailureFailsOnlyThatOperator ==
    (fx.fn \in BatchFunctions /\ fx.pc = "returned") =>
        LET file == IF fx.fn = "trivia.process_all_operators"
                    THEN "Trivia.json" ELSE "Overview.json"
        IN  /\ fx.out.returned
            /\ fx.out.visited = operators
            /\ fx.out.failed = FetchFailed
            /\ fx.out.successful + Len(fx.out.failed) = Len(operators)
            /\ \A o \in OperatorNames :
                  fx.out.tree[o].files[file] = "new" <=>
                      \A i \in 1..Len(fx.out.failed) : fx.out.failed[i] # o

====
